---------------------------- MODULE Spec2Model ----------------------------
(***************************************************************************)
(* State-machine model of the five-tier agent hierarchy of                 *)
(* GermanCodeZero-Agent/core: NanoAgent (atomic unit), MikroAgent          *)
(* (pipeline), SubAgent (process), DomainAgent and EnterpriseAgent.        *)
(*                                                                         *)
(* A Python dict is modelled by the set of its keys.  An execute call is   *)
(* split into one action per await point.  A result dict ("Outcome") is a  *)
(* record; a call that raises instead of returning is the record with      *)
(* raised = TRUE.                                                          *)
(***************************************************************************)
EXTENDS Integers, Sequences, FiniteSets, TLC

\* ------------------------------------------------------------------ bounds
MaxChildren == 3      \* nano agents a pipeline is built from
MaxFaults == 2        \* a wrapped operation faults on at most its first MaxFaults invocations
MaxCalls == 2         \* execute calls made on the pipeline under check
MaxKids == 2          \* children registered with the process under check
SubMaxCalls == 1      \* execute calls made on the process under check
MaxDomKids == 2       \* children registered with the domain under check
DomMaxCalls == 2      \* execute calls made on the domain under check
MaxEntDomains == 1    \* domains the business process of the enterprise under check names
EntMaxCalls == 2      \* execute calls made on the enterprise under check
MaxOrchDomains == 2   \* domains of the enterprise whose orchestration is under check
MaxTreeOps == 4       \* child-add, child-remove, register and unregister calls made on the nodes under check
MaxCallbacks == 2     \* callbacks registered with the nano agent whose callbacks are under check
AtomMaxCalls == 2     \* execute, start and stop calls made on that nano agent

\* ------------------------------------------------------- program constants
DefaultMaxRetries == 3     \* retry_config['max_retries']
DefaultRetryDelay == 1     \* retry_config['retry_delay']

\* ------------------------------------------------------------- value spaces
\* A dict key is a number: key 0 is a field the caller supplies, key n >= 1 is
\* the key of the dict the wrapped operation of nano agent n returns.
Fields == {0}
NanoIds == 1..MaxChildren             \* the nano agents, named by their position
Inputs == SUBSET Fields               \* the input dicts a caller passes
PipelineModes == {"sequential", "parallel", "other"}

VARIABLES
    nanoCfg,     \* per nano: input_schema['required'] and the wrapped operation's script
    nano,        \* per nano: opCalls (invocations of the operation), execution_count, history length, callback events fired
    mikroCfg,    \* the pipeline: pipeline_mode and nano_agents
    mikro,       \* the pipeline's in-flight execute, its last outcome and its own history length
    invLog,      \* observer: the child execute calls of the current top-level execute, in call order
    subCfg,      \* the process: children kinds, workflows, conditional flows, decision_logic, error handlers, retry_config
    sub,         \* the process's in-flight execute (its per-call context), its last outcome and its own history length
    kidHistory,  \* history length of the MikroAgent wrapping child c of the process
    domCfg,      \* the domain: domain_type, sub_agents, routing_rules, policies
    dom,         \* the domain's in-flight execute, its last outcome, domain_metrics and history length
    domKid,      \* per child SubAgent of the domain: execute calls received, history length
    entCfg,      \* the enterprise: industry, compliance_requirements, required fields, domains, business_processes
    ent,         \* the enterprise's in-flight execute, last outcome, monitoring, audit_trail, history length
    entDom,      \* per DomainAgent of the enterprise: execute calls received and returned with success, monitoring domain_usage
    tree,        \* the composition: per node context.child_agents and context.parent_agent, and the parents' own child collections
    registry,    \* the AgentRegistry: agents, metadata_cache, the two database tables, and the last call made on it
    atom,        \* one NanoAgent with its callbacks: _callbacks, its in-flight execute, last outcome, counters and the trigger log
    conc,        \* two execute calls in flight on one process: each call's frame and per-call context
    limiter      \* the RateLimiter: the Redis sorted set of each key, the clock, and the decisions returned

vars == <<nanoCfg, nano, mikroCfg, mikro, invLog, subCfg, sub, kidHistory,
          domCfg, dom, domKid, entCfg, ent, entDom, tree, registry, atom, conc, limiter>>

\* what the actions of one tier leave alone: the nodes of the other tiers
notPipe == <<subCfg, sub, kidHistory, domCfg, dom, domKid, entCfg, ent, entDom, tree, registry, atom, conc, limiter>>
notSub == <<mikroCfg, mikro, domCfg, dom, domKid, entCfg, ent, entDom, tree, registry, atom, conc, limiter>>
notDom == <<nanoCfg, nano, mikroCfg, mikro, invLog, subCfg, sub, kidHistory, entCfg, ent, entDom, tree, registry, atom, conc, limiter>>
notEnt == <<nanoCfg, nano, mikroCfg, mikro, invLog, subCfg, sub, kidHistory, domCfg, dom, domKid, tree, registry, atom, conc, limiter>>

\* ------------------------------------------------------------- NanoAgent

\* The result dict of a NanoAgent.execute (raised = TRUE: the exception it raised).
NoOutcome == [agent |-> 0, success |-> FALSE, raised |-> FALSE,
              error_type |-> "none", hasResult |-> FALSE, result |-> {}]

\* validate_input: every required field is a key of the input
NanoValidateInput(n, data) == nanoCfg[n].required \subseteq data

\* The wrapped operation: its k-th invocation (k = 1, 2, ...) faults iff k is
\* among its first faultsFirst invocations.
ActionFaults(n, k) == k <= nanoCfg[n].faultsFirst

\* The dict the wrapped operation of nano n returns: a dict with n's own key.
ActionResult(n) == {n}

\* execute up to the await of the operation: before_execute fired, operation invoked
NanoStart(st) == [st EXCEPT !.opCalls = @ + 1, !.before = @ + 1]

\* execute after the operation's k-th invocation returned or faulted
NanoFinish(n, st, k) ==
    IF ActionFaults(n, k)
    THEN [st EXCEPT !.onError = @ + 1]
    ELSE [st EXCEPT !.execution_count = @ + 1, !.history = @ + 1, !.after = @ + 1]

\* what execute returns once the operation's k-th invocation is over
NanoFinishOutcome(n, k) ==
    IF ActionFaults(n, k)
    THEN [NoOutcome EXCEPT !.agent = n, !.error_type = "ActionFault"]
    ELSE [NoOutcome EXCEPT !.agent = n, !.success = TRUE, !.hasResult = TRUE,
                           !.result = ActionResult(n)]

\* execute, whole: what the call returns (or raises) when the nano's operation
\* has been invoked opCalls times before.
NanoExecuteOutcome(n, data, opCalls) ==
    IF ~NanoValidateInput(n, data)
    THEN [NoOutcome EXCEPT !.agent = n, !.raised = TRUE, !.error_type = "ValueError"]
    ELSE NanoFinishOutcome(n, opCalls + 1)

\* execute, whole: the nano's own state after the call.
NanoExecuteState(n, data, st) ==
    IF ~NanoValidateInput(n, data) THEN st
    ELSE NanoFinish(n, NanoStart(st), st.opCalls + 1)

NanoInit == [opCalls |-> 0, execution_count |-> 0, history |-> 0,
             before |-> 0, after |-> 0, onError |-> 0]

NanoConfigs == [required : SUBSET Fields, faultsFirst : 0..MaxFaults]

\* One entry of the invocation log: execute of agent a was called with data.
Invocation(a, data) == [agent |-> a, data |-> data]

\* ------------------------------------------------------------- MikroAgent

\* The result dict of a MikroAgent.execute (raised = TRUE: the exception it raised).
MikroNoOutcome == [success |-> FALSE, raised |-> FALSE, error_type |-> "none",
                   failed_at_step |-> 0, partial_results |-> <<>>,
                   nano_results |-> <<>>, final_output |-> {}]

MikroIdle == [pc |-> "idle", calls |-> 0, input |-> {}, i |-> 1, current |-> {},
              seqResults |-> <<>>, results |-> <<>>,
              task |-> [n \in NanoIds |-> "none"], taskK |-> [n \in NanoIds |-> 0],
              taskOut |-> [n \in NanoIds |-> NoOutcome],
              outcome |-> MikroNoOutcome, history |-> 0]

NumNanos == Len(mikroCfg.nano_agents)

\* a validate_input that asks every child
MikroValidateEveryChild(data) ==
    /\ mikroCfg.nano_agents # <<>>
    /\ \A i \in 1..Len(mikroCfg.nano_agents) : NanoValidateInput(mikroCfg.nano_agents[i], data)

\* validate_input: a pipeline without children is invalid; else the first child decides
MikroValidateInput(data) ==
    /\ mikroCfg.nano_agents # <<>>
    /\ NanoValidateInput(mikroCfg.nano_agents[1], data)

\* execute, the success branch: the output dict built from results
MikroOutputFirst(results) ==
    [MikroNoOutcome EXCEPT !.success = TRUE, !.nano_results = results,
                           !.final_output = results[1].result]
MikroOutput(results) ==
    [MikroNoOutcome EXCEPT !.success = TRUE, !.nano_results = results,
                           !.final_output = results[Len(results)].result]

\* execute, the except branch: the error dict built from execute's own results variable
MikroErrorOutput(results) ==
    [MikroNoOutcome EXCEPT !.error_type = "Exception", !.failed_at_step = Len(results),
                           !.partial_results = results]

\* execute up to the first await: validation, then dispatch on pipeline_mode
MikroCall(data) ==
    /\ mikro.pc \in {"idle", "done"}
    /\ mikro.calls < MaxCalls
    /\ invLog' = <<>>
    /\ LET fresh == [MikroIdle EXCEPT !.calls = mikro.calls + 1, !.input = data,
                                      !.current = data, !.history = mikro.history]
       IN  IF ~MikroValidateInput(data)
           THEN mikro' = [fresh EXCEPT !.pc = "done",
                              !.outcome = [MikroNoOutcome EXCEPT !.raised = TRUE,
                                                                 !.error_type = "ValueError"]]
           ELSE IF mikroCfg.pipeline_mode = "sequential"
           THEN mikro' = [fresh EXCEPT !.pc = "seq"]
           ELSE IF mikroCfg.pipeline_mode = "parallel"
           THEN mikro' = [fresh EXCEPT !.pc = "par",
                              !.task = [n \in NanoIds |-> IF n <= NumNanos THEN "new" ELSE "none"]]
           ELSE mikro' = [fresh EXCEPT !.pc = "done", !.outcome = MikroErrorOutput(<<>>)]
    /\ UNCHANGED <<nanoCfg, nano, mikroCfg, notPipe>>

\* _execute_sequential, "Bei Fehler: Pipeline stoppen": a child's non-success
\* result raises out of the loop
ChildStopsPipelineNever(out) == FALSE
ChildStopsPipeline(out) == ~out.success

\* _execute_sequential, one loop iteration: await child i on current_data; a
\* child that raises or returns non-success leaves the loop by an exception,
\* which execute's except branch turns into the error dict; the last child's
\* success returns the list and execute builds the output dict.
MikroSeqStep ==
    /\ mikro.pc = "seq"
    /\ mikro.i <= NumNanos
    /\ LET n == mikroCfg.nano_agents[mikro.i]
           out == NanoExecuteOutcome(n, mikro.current, nano[n].opCalls)
           collected == Append(mikro.seqResults, out)
       IN  /\ nano' = [nano EXCEPT ![n] = NanoExecuteState(n, mikro.current, @)]
           /\ invLog' = Append(invLog, Invocation(n, mikro.current))
           /\ IF out.raised
              THEN mikro' = [mikro EXCEPT !.pc = "done",
                                 !.outcome = MikroErrorOutput(mikro.results)]
              ELSE IF ChildStopsPipeline(out)
              THEN mikro' = [mikro EXCEPT !.pc = "done", !.seqResults = collected,
                                 !.outcome = MikroErrorOutput(mikro.results)]
              ELSE IF mikro.i < NumNanos
              THEN mikro' = [mikro EXCEPT !.seqResults = collected, !.i = @ + 1,
                                 !.current = out.result]
              ELSE mikro' = [mikro EXCEPT !.pc = "done", !.seqResults = collected,
                                 !.results = collected, !.i = @ + 1,
                                 !.current = out.result,
                                 !.outcome = MikroOutput(collected),
                                 !.history = @ + 1]
    /\ UNCHANGED <<nanoCfg, mikroCfg, notPipe>>

\* _execute_parallel, gather starting the next task: child i's execute runs on
\* a copy of the input up to its first await (tasks start in list order)
MikroParStart ==
    /\ mikro.pc = "par"
    /\ \E i \in 1..NumNanos :
        /\ mikro.task[i] = "new"
        /\ \A j \in 1..(i - 1) : mikro.task[j] # "new"
        /\ LET n == mikroCfg.nano_agents[i]
           IN  /\ invLog' = Append(invLog, Invocation(n, mikro.input))
               /\ IF ~NanoValidateInput(n, mikro.input)
                  THEN /\ mikro' = [mikro EXCEPT !.task[i] = "done",
                                        !.taskOut[i] = NanoExecuteOutcome(n, mikro.input, nano[n].opCalls)]
                       /\ nano' = nano
                  ELSE /\ mikro' = [mikro EXCEPT !.task[i] = "run",
                                        !.taskK[i] = nano[n].opCalls + 1]
                       /\ nano' = [nano EXCEPT ![n] = NanoStart(@)]
    /\ UNCHANGED <<nanoCfg, mikroCfg, notPipe>>

\* a running child's operation returns or faults and its execute finishes; the
\* running children finish in any order
MikroParFinish(i) ==
    /\ mikro.pc = "par"
    /\ i <= NumNanos
    /\ mikro.task[i] = "run"
    /\ LET n == mikroCfg.nano_agents[i]
       IN  /\ nano' = [nano EXCEPT ![n] = NanoFinish(n, @, mikro.taskK[i])]
           /\ mikro' = [mikro EXCEPT !.task[i] = "done",
                            !.taskOut[i] = NanoFinishOutcome(n, mikro.taskK[i])]
    /\ UNCHANGED <<nanoCfg, mikroCfg, invLog, notPipe>>

\* _execute_parallel after gather: an exception becomes a non-success entry
ProcessedResult(out) ==
    IF out.raised THEN [NoOutcome EXCEPT !.agent = out.agent, !.error_type = out.error_type]
    ELSE out

\* gather(return_exceptions=True) is over when every task is
GatherFirstCompleted == \E i \in 1..NumNanos : mikro.task[i] = "done"
GatherDone == \A i \in 1..NumNanos : mikro.task[i] = "done"

\* _execute_parallel returns the processed list and execute builds its output;
\* reading results[-1]['result'] of an entry without that key raises KeyError,
\* which the except branch turns into the error dict.
MikroParJoin ==
    /\ mikro.pc = "par"
    /\ GatherDone
    /\ LET processed == [i \in 1..NumNanos |-> ProcessedResult(mikro.taskOut[i])]
       IN  IF processed[NumNanos].hasResult
           THEN mikro' = [mikro EXCEPT !.pc = "done", !.results = processed,
                              !.outcome = MikroOutput(processed), !.history = @ + 1]
           ELSE mikro' = [mikro EXCEPT !.pc = "done", !.results = processed,
                              !.outcome = MikroErrorOutput(processed)]
    /\ UNCHANGED <<nanoCfg, nano, mikroCfg, invLog, notPipe>>

MikroConfigs == [pipeline_mode : PipelineModes,
                 nano_agents : {[i \in 1..k |-> i] : k \in 0..MaxChildren}]

\* ---- the nodes whose composition and registration are under check
\* two nano agents, two pipelines, one process and one domain.  Pipeline 4
\* has the name of nano agent 1.
NanoNodes == {1, 2}
MikroNodes == {3, 4}
SubNodes == {5}
DomainNodes == {6}
Nodes == NanoNodes \cup MikroNodes \cup SubNodes \cup DomainNodes
NoNode == 0                \* None
NameOf ==                  \* metadata.name
    [n \in Nodes |-> CASE n = 1 -> "a" [] n = 2 -> "b" [] n = 3 -> "m"
                       [] n = 4 -> "a" [] n = 5 -> "s" [] n = 6 -> "d"]
NodeNames == {NameOf[n] : n \in Nodes}
Capabilities == {"c"}

\* no dict entry under any name
NoAgents == [nm \in NodeNames |-> NoNode]

\* the nodes as their constructors leave them: AgentContext() has no parent and
\* no children, the pipelines are built from an empty list
TreeIdle ==
    [child_agents |-> [n \in Nodes |-> <<>>],
     parent_agent |-> [n \in Nodes |-> NoNode],
     nano_agents |-> [m \in MikroNodes |-> <<>>],
     sub_mikro_agents |-> [s \in SubNodes |-> NoAgents],
     sub_nano_agents |-> [s \in SubNodes |-> NoAgents],
     sub_agents |-> [d \in DomainNodes |-> NoAgents],
     routing_rules |-> [d \in DomainNodes |-> [c \in Capabilities |-> <<>>]],
     ops |-> 0]

\* AgentRegistry() on a new database file
RegistryEmpty ==
    [agents |-> NoAgents, metadata_cache |-> {}, rows |-> {}, relationships |-> {},
     ops |-> 0,
     last |-> [op |-> "none", name |-> "none", node |-> NoNode, ret |-> FALSE,
               before |-> NoAgents]]

\* the composition and the registry when neither is under check
TreeAtRest ==
    /\ tree = TreeIdle
    /\ registry = RegistryEmpty

\* ---- the nano agent whose callbacks are under check
Events == {"before_execute", "after_execute", "on_error", "start", "stop"}

\* what the wrapped operation did in the current call: not invoked, returned,
\* or raised an exception of a type name (kind) and str() (message)
NoFault == [kind |-> "none", message |-> "none"]
Returned == [kind |-> "returned", message |-> "none"]

\* the result dict of its execute (raised = TRUE: the exception it raised)
AtomNoOutcome == [success |-> FALSE, raised |-> FALSE, error_type |-> "none",
                  error |-> "none", hasResult |-> FALSE, execution_count |-> 0]

\* NanoAgent(name, action, input_schema = {'required': required}) after its
\* constructor: no callbacks, not running, nothing executed
AtomIdle(required) ==
    [required |-> required,
     callbacks |-> [e \in Events |-> <<>>],
     registered |-> 0,
     is_running |-> FALSE, lifecycle |-> 0,
     pc |-> "idle", calls |-> 0, input |-> {},
     execution_count |-> 0, history |-> 0,
     triggers |-> <<>>, callback_errors |-> 0,
     operation |-> NoFault,
     outcome |-> AtomNoOutcome]

\* the nano agent when its callbacks are not under check
AtomAtRest == atom = AtomIdle({})

\* no second execute call in flight on the process
ConcAtRest == conc = [pc |-> "idle"]

\* the rate limiter when it is not under check
LimiterAtRest == limiter = [pc |-> "idle"]

\* the enterprise tier when no enterprise is under check
EntAtRest ==
    /\ entCfg = [industry |-> "custom"]
    /\ ent = [pc |-> "idle"]
    /\ entDom = <<>>

\* the domain tier when no domain is under check
DomAtRest ==
    /\ domCfg = [domain_type |-> "custom", sub_agents |-> <<>>, routing_rules |-> <<>>,
                 policies |-> <<>>]
    /\ dom = [pc |-> "idle"]
    /\ domKid = [k \in 1..MaxDomKids |-> [calls |-> 0, history |-> 0]]

\* the process tier before any process is built
SubAtRest ==
    /\ subCfg = [kind |-> [c \in 1..MaxKids |-> "nano"], workflows |-> <<>>,
                 conditional_flows |-> <<>>, stop_on_error |-> TRUE, required_fields |-> {},
                 error_handlers |-> [t \in {"ValueError", "Exception"} |-> "none"],
                 retry_config |-> [max_retries |-> DefaultMaxRetries,
                                   retry_delay |-> DefaultRetryDelay,
                                   exponential_backoff |-> TRUE]]
    /\ sub = [pc |-> "idle"]
    /\ kidHistory = [c \in 1..MaxKids |-> 0]

PipeInit ==
    /\ SubAtRest /\ DomAtRest /\ EntAtRest /\ TreeAtRest /\ AtomAtRest /\ ConcAtRest /\ LimiterAtRest
    /\ nanoCfg \in [NanoIds -> NanoConfigs]
    /\ nano = [n \in NanoIds |-> NanoInit]
    /\ mikroCfg \in MikroConfigs
    /\ mikro = MikroIdle
    /\ invLog = <<>>

PipeNext ==
    \/ \E d \in Inputs : MikroCall(d)
    \/ MikroSeqStep
    \/ MikroParStart
    \/ \E i \in NanoIds : MikroParFinish(i)
    \/ MikroParJoin

SpecPipeline == PipeInit /\ [][PipeNext]_vars

\* ------------------------------------------------------------- SubAgent
\* The process's children are the nano agents 1..MaxKids; child c is either
\* registered directly (add_nano_agent) or wrapped in a sequential MikroAgent
\* of its own, <<c>>, registered with add_mikro_agent.  Child name 0 is a name
\* no registered child has (None where a child is optional).

SubKids == 1..MaxKids
WorkflowNames == {"default", "w"}
ErrorTypes == {"ValueError", "Exception"}

SubNoOutcome == [success |-> FALSE, raised |-> FALSE, error_type |-> "none",
                 recovered |-> FALSE, final |-> "none", steps_executed |-> 0,
                 error |-> "none", recovery_result |-> "none"]

SubIdle == [pc |-> "idle", calls |-> 0, input |-> [keys |-> {}, workflow |-> "default"],
            stage |-> "none", idx |-> 1, cur |-> 0, retries |-> 0, delay |-> 0,
            attempts |-> 0, waited |-> 0, lastWait |-> 0, handled |-> "none", cause |-> "none",
            wfResults |-> <<>>, ctxResults |-> <<>>, current_step |-> 0,
            dispatched |-> <<>>, evaluated |-> <<>>,
            decisions |-> <<>>, outcome |-> SubNoOutcome, history |-> 0]

\* the MikroAgent children in insertion order (self.mikro_agents)
RECURSIVE MikroKidsFrom(_)
MikroKidsFrom(c) ==
    IF c > MaxKids THEN <<>>
    ELSE IF subCfg.kind[c] = "mikro" THEN <<c>> \o MikroKidsFrom(c + 1)
    ELSE MikroKidsFrom(c + 1)
MikroKids == MikroKidsFrom(1)

\* _find_agent: mikro_agents first, then nano_agents, else None
FindAgent(name) == IF name \in SubKids THEN name ELSE 0

\* validate_input: the required_fields of decision_logic are keys of the input
SubValidateInput(inp) == subCfg.required_fields \subseteq inp.keys

\* _prepare_agent_input: the input, updated with the 'result' of the last
\* entry of context['results'] when that entry has one
PrepareAgentInput(s) ==
    LET rs == s.ctxResults
    IN  IF rs # <<>> /\ rs[Len(rs)].hasResult
        THEN s.input.keys \cup rs[Len(rs)].result
        ELSE s.input.keys

\* MikroAgent.execute of the wrapper pipeline <<c>>, as the process awaits it:
\* the wrapper's validation is its only child's; its result dict has no
\* 'result' key (it reports nano_results and final_output)
MikroKidOutcome(c, data, opCalls) ==
    LET out == NanoExecuteOutcome(c, data, opCalls)
    IN  IF out.raised THEN out
        ELSE [NoOutcome EXCEPT !.agent = c, !.success = ~ChildStopsPipeline(out),
                               !.error_type = IF ChildStopsPipeline(out) THEN "Exception" ELSE "none"]

\* agent.execute(agent_input) for child c
KidExecuteOutcome(c, data, opCalls) ==
    IF subCfg.kind[c] = "mikro" THEN MikroKidOutcome(c, data, opCalls)
    ELSE NanoExecuteOutcome(c, data, opCalls)

\* ConditionalFlow.evaluate: the condition on the live context picks the path
FlowCondition(cond, s) ==
    IF cond = "hasField" THEN 0 \in s.input.keys
    ELSE IF cond = "noResults" THEN s.ctxResults = <<>>
    ELSE IF cond = "someResults" THEN s.ctxResults # <<>>
    ELSE FALSE
FlowEvaluateTruePath(flow, s) == flow.true_path
FlowEvaluate(flow, s) == IF FlowCondition(flow.cond, s) THEN flow.true_path ELSE flow.false_path

\* one pass of the loop over conditional_flows, as it happened: the flow's
\* position, what its condition gave on the context of that moment, the
\* agent evaluate returned (0 for None) and the results stored by then
FlowEvaluation(i, s, agent) ==
    [flow |-> i, holds |-> FlowCondition(subCfg.conditional_flows[i].cond, s),
     selected |-> agent, step |-> Len(s.ctxResults)]

\* _handle_error: the handler registered for the error's type name, if any,
\* may return a recovery payload; "no_payload" stands for None and any other
\* falsy return value, "raises" for a handler that raises
HandlerRecoversIfRegistered(errType) == subCfg.error_handlers[errType] # "none"
HandlerRecovers(errType) == subCfg.error_handlers[errType] = "payload"

\* execute's except branch (the error-handler stage): recovered output, or the
\* error dict; cause tells which raise statement the exception came from
SubFail(s, errType, cause) ==
    IF HandlerRecovers(errType)
    THEN [s EXCEPT !.pc = "done", !.handled = errType, !.cause = cause,
                   !.outcome = [SubNoOutcome EXCEPT !.success = TRUE, !.recovered = TRUE,
                                                    !.final = "recovery",
                                                    !.recovery_result = subCfg.error_handlers[errType]]]
    ELSE [s EXCEPT !.pc = "done", !.handled = errType, !.cause = cause,
                   !.outcome = [SubNoOutcome EXCEPT !.error_type = errType, !.error = cause]]

\* execute's success branch: output dict, one history entry
SubSucceed(s, final) ==
    [s EXCEPT !.pc = "done", !.history = @ + 1,
              !.outcome = [SubNoOutcome EXCEPT !.success = TRUE, !.final = final,
                                               !.steps_executed = s.current_step]]

\* _execute_agent entered for child c: retries = 0
SubEnter(s, c) == [s EXCEPT !.pc = "attempt", !.cur = c, !.retries = 0, !.attempts = 0,
                            !.lastWait = 0, !.dispatched = Append(@, c)]

\* _execute_process_logic / _execute_workflow from the position (stage, idx)
\* up to the next await: the next child to run, or the end of execute
RECURSIVE SubAdvance(_)
SubAdvance(s) ==
    IF s.stage = "workflow"
    THEN LET steps == subCfg.workflows[s.input.workflow]
         IN  IF s.idx > Len(steps) THEN SubSucceed(s, "workflow_results")
             ELSE IF FindAgent(steps[s.idx]) = 0 THEN SubFail(s, "ValueError", "agent_not_found")
             ELSE SubEnter(s, FindAgent(steps[s.idx]))
    ELSE IF s.stage = "flows"
    THEN IF s.idx > Len(subCfg.conditional_flows)
         THEN SubAdvance([s EXCEPT !.stage = "fallback", !.idx = 1])
         ELSE LET agent == FlowEvaluate(subCfg.conditional_flows[s.idx], s)
                  s1 == [s EXCEPT !.evaluated = Append(@, FlowEvaluation(s.idx, s, agent))]
              IN  IF agent = 0 THEN SubAdvance([s1 EXCEPT !.idx = @ + 1])
                  ELSE SubEnter([s1 EXCEPT !.decisions = Append(@, agent)], agent)
    ELSE IF s.idx > Len(MikroKids) THEN SubSucceed(s, "context_results")
         ELSE SubEnter(s, MikroKids[s.idx])

\* the stop_on_error policy of decision_logic (default True)
StopOnErrorAlways == TRUE
StopOnError == subCfg.stop_on_error

\* the caller of _execute_agent after it returned result r
SubAfterResult(s, r) ==
    IF s.stage = "workflow"
    THEN LET s2 == [s EXCEPT !.wfResults = Append(@, r)]
         IN  IF ~r.success /\ StopOnError THEN SubFail(s2, "Exception", "stop_on_error")
             ELSE SubAdvance([s2 EXCEPT !.idx = @ + 1])
    ELSE IF s.stage = "flows"
    THEN IF r.success THEN SubSucceed(s, "flow_result")
         ELSE SubAdvance([s EXCEPT !.idx = @ + 1])
    ELSE IF ~r.success /\ StopOnError THEN SubFail(s, "Exception", "stop_on_error")
         ELSE SubAdvance([s EXCEPT !.idx = @ + 1])

\* execute up to the first await: validation, the per-call context, and the
\* choice between workflow, conditional flows and the fallback
SubCall(inp) ==
    /\ sub.pc \in {"idle", "done"}
    /\ sub.calls < SubMaxCalls
    /\ invLog' = <<>>
    /\ LET fresh == [SubIdle EXCEPT !.calls = sub.calls + 1, !.input = inp,
                                    !.history = sub.history]
       IN  IF ~SubValidateInput(inp)
           THEN sub' = [fresh EXCEPT !.pc = "done",
                            !.outcome = [SubNoOutcome EXCEPT !.raised = TRUE,
                                                             !.error_type = "ValueError"]]
           ELSE IF inp.workflow \in DOMAIN subCfg.workflows
           THEN sub' = SubAdvance([fresh EXCEPT !.stage = "workflow"])
           ELSE sub' = SubAdvance([fresh EXCEPT !.stage = "flows"])
    /\ UNCHANGED <<nanoCfg, nano, subCfg, kidHistory, notSub>>

\* _execute_agent: may another attempt follow `retries` failed ones
RetryAllowedStrict(retries) == retries < subCfg.retry_config.max_retries
RetryAllowed(retries) == retries <= subCfg.retry_config.max_retries

\* a delay that doubles from the first retry on
RetryDelayDoubledAtOnce(retries) ==
    IF subCfg.retry_config.exponential_backoff
    THEN subCfg.retry_config.retry_delay * (2 ^ retries)
    ELSE subCfg.retry_config.retry_delay

\* _execute_agent: the delay slept before the retry that follows the
\* retries-th failed attempt
RetryDelay(retries) ==
    IF subCfg.retry_config.exponential_backoff
    THEN subCfg.retry_config.retry_delay * (2 ^ (retries - 1))
    ELSE subCfg.retry_config.retry_delay

\* _execute_agent, one pass of the while loop: prepare the input and await the
\* child's execute.  A returned result (success or not) is stored and handed
\* to the caller; a raised exception counts a retry and either sleeps or,
\* with the retries used up, re-raises into execute's except branch.
SubAttempt ==
    /\ sub.pc = "attempt"
    /\ RetryAllowed(sub.retries)
    /\ LET c == sub.cur
           data == PrepareAgentInput(sub)
           out == KidExecuteOutcome(c, data, nano[c].opCalls)
           s1 == [sub EXCEPT !.attempts = @ + 1]
       IN  /\ nano' = [nano EXCEPT ![c] = NanoExecuteState(c, data, @)]
           /\ kidHistory' = IF subCfg.kind[c] = "mikro" /\ out.success
                            THEN [kidHistory EXCEPT ![c] = @ + 1] ELSE kidHistory
           /\ invLog' = Append(invLog, Invocation(c, data))
           /\ IF ~out.raised
              THEN sub' = SubAfterResult([s1 EXCEPT !.ctxResults = Append(@, out),
                                                    !.current_step = @ + 1], out)
              ELSE IF RetryAllowed(sub.retries + 1)
              THEN sub' = [s1 EXCEPT !.pc = "sleep", !.retries = @ + 1,
                                     !.delay = RetryDelay(sub.retries + 1)]
              ELSE sub' = SubFail([s1 EXCEPT !.retries = @ + 1], out.error_type, "retries_exhausted")
    /\ UNCHANGED <<nanoCfg, subCfg, notSub>>

\* await asyncio.sleep(delay) is over: back to the top of the while loop
SubSleep ==
    /\ sub.pc = "sleep"
    /\ sub' = [sub EXCEPT !.pc = "attempt", !.waited = @ + sub.delay,
                          !.lastWait = @ + sub.delay]
    /\ UNCHANGED <<nanoCfg, nano, subCfg, kidHistory, invLog, notSub>>

\* the pipeline tier when no stand-alone pipeline is under check
PipeAtRest ==
    /\ mikroCfg = [pipeline_mode |-> "sequential", nano_agents |-> <<>>]
    /\ mikro = [pc |-> "idle"]

SubInputs == [keys : SUBSET Fields, workflow : WorkflowNames]

RetryConfigs == [max_retries : 0..DefaultMaxRetries, retry_delay : {DefaultRetryDelay},
                 exponential_backoff : BOOLEAN]

NoHandlers == [t \in ErrorTypes |-> "none"]

\* a process with the workflow w = [1, 2], the flows
\* (input has field 0 ? child 1 : child 2) and (no result yet ? child 2 : None),
\* default decision_logic and no error handler; the children and the retry
\* configuration vary
RetryInit ==
    /\ nanoCfg \in [NanoIds -> NanoConfigs]
    /\ \A n \in NanoIds \ SubKids : nanoCfg[n] = [required |-> {}, faultsFirst |-> 0]
    /\ nano = [n \in NanoIds |-> NanoInit]
    /\ \E kind \in [SubKids -> {"nano", "mikro"}], rc \in RetryConfigs :
          subCfg = [kind |-> kind,
                    workflows |-> [w \in {"w"} |-> <<1, 2>>],
                    conditional_flows |-> <<[cond |-> "hasField", true_path |-> 1, false_path |-> 2],
                                            [cond |-> "noResults", true_path |-> 2, false_path |-> 0]>>,
                    stop_on_error |-> TRUE,
                    required_fields |-> {},
                    error_handlers |-> NoHandlers,
                    retry_config |-> rc]
    /\ sub = SubIdle
    /\ kidHistory = [c \in SubKids |-> 0]
    /\ invLog = <<>>
    /\ PipeAtRest /\ DomAtRest /\ EntAtRest /\ TreeAtRest /\ AtomAtRest /\ ConcAtRest /\ LimiterAtRest

SubNext ==
    \/ \E inp \in SubInputs : SubCall(inp)
    \/ SubAttempt
    \/ SubSleep

SpecRetry == RetryInit /\ [][SubNext]_vars

\* the retry configurations whose waits are checked: retry_delay varies
BaseDelays == {1, 2, 3}
BackoffConfigs == [max_retries : 0..DefaultMaxRetries, retry_delay : BaseDelays,
                   exponential_backoff : BOOLEAN]

\* a process with the workflow w = [1, 2] over nano agents whose operations
\* never fault and whose required fields vary (a nano agent raises on an input
\* without them), no flows and no error handler; the retry configuration
\* varies
BackoffInit ==
    /\ nanoCfg \in [NanoIds -> NanoConfigs]
    /\ \A n \in NanoIds : nanoCfg[n].faultsFirst = 0
    /\ \A n \in NanoIds \ SubKids : nanoCfg[n].required = {}
    /\ nano = [n \in NanoIds |-> NanoInit]
    /\ \E rc \in BackoffConfigs :
          subCfg = [kind |-> [c \in SubKids |-> "nano"],
                    workflows |-> [w \in {"w"} |-> <<1, 2>>],
                    conditional_flows |-> <<>>,
                    stop_on_error |-> TRUE,
                    required_fields |-> {},
                    error_handlers |-> NoHandlers,
                    retry_config |-> rc]
    /\ sub = SubIdle
    /\ kidHistory = [c \in SubKids |-> 0]
    /\ invLog = <<>>
    /\ PipeAtRest /\ DomAtRest /\ EntAtRest /\ TreeAtRest /\ AtomAtRest /\ ConcAtRest /\ LimiterAtRest

SpecBackoff == BackoffInit /\ [][SubNext]_vars

\* the error-handler tables of the processes checked: a handler returns a
\* payload, returns None, or raises
HandlerTables ==
    {NoHandlers,
     [t \in ErrorTypes |-> IF t = "ValueError" THEN "payload" ELSE "none"],
     [t \in ErrorTypes |-> IF t = "Exception" THEN "payload" ELSE "none"],
     [t \in ErrorTypes |-> IF t = "Exception" THEN "no_payload" ELSE "raises"]}

\* the conditional flows (input has field 0 ? child 1 : child 2),
\* (no result yet ? child 2 : None) and (some result ? child 2 : None)
ThreeFlows ==
    <<[cond |-> "hasField", true_path |-> 1, false_path |-> 2],
      [cond |-> "noResults", true_path |-> 2, false_path |-> 0],
      [cond |-> "someResults", true_path |-> 2, false_path |-> 0]>>

\* a process with the workflow w = [2, 1, 2], the three flows above or no
\* flow at all, and the default retry configuration; the children,
\* stop_on_error and the error handlers vary
ProcInit ==
    /\ nanoCfg \in [NanoIds -> [required : SUBSET Fields, faultsFirst : {0, 1}]]
    /\ \A n \in NanoIds \ SubKids : nanoCfg[n] = [required |-> {}, faultsFirst |-> 0]
    /\ Cardinality({c \in SubKids : nanoCfg[c].required # {}}) <= 1
    /\ Cardinality({c \in SubKids : nanoCfg[c].faultsFirst # 0}) <= 1
    /\ nano = [n \in NanoIds |-> NanoInit]
    /\ \E first \in {"nano", "mikro"}, rest \in {"nano", "mikro"},
          stop \in BOOLEAN, handlers \in HandlerTables, flows \in {ThreeFlows, <<>>} :
          /\ ~stop => handlers = NoHandlers
          /\ subCfg = [kind |-> [c \in SubKids |-> IF c = 1 THEN first ELSE rest],
                       workflows |-> [w \in {"w"} |-> <<2, 1, 2>>],
                       conditional_flows |-> flows,
                       stop_on_error |-> stop,
                       required_fields |-> {},
                       error_handlers |-> handlers,
                       retry_config |-> [max_retries |-> DefaultMaxRetries,
                                         retry_delay |-> DefaultRetryDelay,
                                         exponential_backoff |-> TRUE]]
    /\ sub = SubIdle
    /\ kidHistory = [c \in SubKids |-> 0]
    /\ invLog = <<>>
    /\ PipeAtRest /\ DomAtRest /\ EntAtRest /\ TreeAtRest /\ AtomAtRest /\ ConcAtRest /\ LimiterAtRest

SpecProcess == ProcInit /\ [][SubNext]_vars

\* ------------------------------------------------------------- DomainAgent
\* The domain's children are the SubAgents 1..n in registration order.  A
\* child's execute is opaque here: it raises (its validate_input rejects the
\* input), returns non-success, or returns success with a final_result that
\* is a list (workflow, fallback) or not (conditional flow, recovery).
\* An input dict is the record of what the domain reads of it: whether key x
\* is present, the keyword its text holds ("absent": no text key) and the
\* value of amount (0: no amount key).

DomainTypes == {"mail_operations", "calendar_operations", "custom"}
DomKids == 1..MaxDomKids
SubExecuteOutcomes == {"raise", "fail", "ok_list", "ok_other"}
DomInputs == [x : BOOLEAN, text : {"absent", "reply", "other"}, amount : 0..2]

DomKeysOf(inp) ==
    (IF inp.x THEN {"x"} ELSE {})
    \cup (IF inp.text # "absent" THEN {"text"} ELSE {})
    \cup (IF inp.amount # 0 THEN {"amount"} ELSE {})

\* the policy rules a group may hold
RuleRequiresX == [kind |-> "required_fields", field |-> "x", bound |-> 0]
RuleForbidsOne == [kind |-> "forbidden_values", field |-> "amount", bound |-> 1]
RuleMaxOne == [kind |-> "max_value", field |-> "amount", bound |-> 1]
PolicyRules == {RuleRequiresX, RuleForbidsOne, RuleMaxOne}

DomNoOutcome == [success |-> FALSE, raised |-> FALSE, error_type |-> "none", error |-> "none",
                 request_type |-> "none", status |-> "none", sub_agents_used |-> <<>>]

DomMetricsInit == [total_requests |-> 0, successful_requests |-> 0, failed_requests |-> 0]

DomIdle == [pc |-> "idle", calls |-> 0, input |-> [x |-> FALSE, text |-> "absent", amount |-> 0],
            request_type |-> "none", policy_checked |-> FALSE, policy_allowed |-> FALSE,
            selected |-> <<>>, idx |-> 1, invoked |-> <<>>, results |-> <<>>,
            outcome |-> DomNoOutcome, history |-> 0, metrics |-> DomMetricsInit]

\* validate_input
DomValidateInput(inp) ==
    IF domCfg.domain_type = "mail_operations"
    THEN DomKeysOf(inp) \cap {"email", "message", "mail_id", "text"} # {}
    ELSE IF domCfg.domain_type = "calendar_operations"
    THEN DomKeysOf(inp) \cap {"date", "time", "appointment", "calendar_id"} # {}
    ELSE TRUE

\* _classify_request: keyword classification of the input's text
ClassifyRequest(inp) ==
    IF domCfg.domain_type = "mail_operations"
    THEN IF inp.text = "reply" THEN "mail_reply"
         ELSE IF inp.text = "forward" THEN "mail_forward"
         ELSE IF inp.text = "archive" THEN "mail_archive"
         ELSE "mail_process"
    ELSE IF domCfg.domain_type = "calendar_operations"
    THEN IF inp.text = "book" THEN "calendar_book"
         ELSE IF inp.text = "cancel" THEN "calendar_cancel"
         ELSE IF inp.text = "reschedule" THEN "calendar_reschedule"
         ELSE "calendar_query"
    ELSE "generic_request"

\* _evaluate_policy_rule: TRUE when the input satisfies the rule
EvaluatePolicyRule(rule, inp) ==
    IF rule.kind = "required_fields" THEN rule.field \in DomKeysOf(inp)
    ELSE IF rule.kind = "forbidden_values"
    THEN ~(rule.field \in DomKeysOf(inp) /\ inp.amount = rule.bound)
    ELSE ~(rule.field \in DomKeysOf(inp) /\ inp.amount > rule.bound)

\* _check_policies: the rules of group 'global', then those of the request type's group
PoliciesSkipTyped(request_type, inp) ==
    "global" \in DOMAIN domCfg.policies
        => \A rule \in domCfg.policies["global"] : EvaluatePolicyRule(rule, inp)
CheckPolicies(request_type, inp) ==
    /\ "global" \in DOMAIN domCfg.policies
          => \A rule \in domCfg.policies["global"] : EvaluatePolicyRule(rule, inp)
    /\ request_type \in DOMAIN domCfg.policies
          => \A rule \in domCfg.policies[request_type] : EvaluatePolicyRule(rule, inp)

\* _route_to_sub_agents: the children registered for the request type, else
\* the first registered child, else none
RouteToFirstRegistered(request_type) ==
    IF domCfg.sub_agents # <<>> THEN <<domCfg.sub_agents[1]>> ELSE <<>>
RouteToSubAgents(request_type) ==
    LET routed == IF request_type \in DOMAIN domCfg.routing_rules
                  THEN SelectSeq(domCfg.routing_rules[request_type],
                                 LAMBDA k : k \in 1..Len(domCfg.sub_agents))
                  ELSE <<>>
    IN  IF routed # <<>> THEN routed
        ELSE IF domCfg.sub_agents # <<>> THEN <<domCfg.sub_agents[1]>>
        ELSE <<>>

\* _aggregate_results raises AttributeError when a mail or calendar domain
\* reads .get of a successful child's final_result that is a list
AggregateRaises(results) ==
    /\ domCfg.domain_type \in {"mail_operations", "calendar_operations"}
    /\ \E i \in 1..Len(results) : results[i] = "ok_list"

\* _aggregate_results: the status of the aggregated result
AggregateStatus(results) ==
    IF \E i \in 1..Len(results) : results[i] \in {"ok_list", "ok_other"}
    THEN "success" ELSE "failed"

\* execute from the aggregation on: the output dict and the metrics, or the
\* except branch when the aggregation raises
DomFinishUncounted(d, results) ==
    IF AggregateRaises(results)
    THEN [d EXCEPT !.pc = "done", !.results = results,
                   !.outcome = [DomNoOutcome EXCEPT !.error_type = "AttributeError",
                                                    !.error = "'list' object has no attribute 'get'",
                                                    !.request_type = d.request_type]]
    ELSE [d EXCEPT !.pc = "done", !.results = results,
                   !.history = @ + 1,
                   !.outcome = [DomNoOutcome EXCEPT !.success = TRUE,
                                                    !.request_type = d.request_type,
                                                    !.status = AggregateStatus(results),
                                                    !.sub_agents_used = d.selected]]
DomFinish(d, results) ==
    IF AggregateRaises(results)
    THEN [d EXCEPT !.pc = "done", !.results = results,
                   !.metrics.failed_requests = @ + 1,
                   !.outcome = [DomNoOutcome EXCEPT !.error_type = "AttributeError",
                                                    !.error = "'list' object has no attribute 'get'",
                                                    !.request_type = d.request_type]]
    ELSE [d EXCEPT !.pc = "done", !.results = results,
                   !.metrics.successful_requests = @ + 1,
                   !.history = @ + 1,
                   !.outcome = [DomNoOutcome EXCEPT !.success = TRUE,
                                                    !.request_type = d.request_type,
                                                    !.status = AggregateStatus(results),
                                                    !.sub_agents_used = d.selected]]

\* execute up to the first child's await: the request counter, validation,
\* classification, the policy gate and the routing
DomainCall(inp) ==
    /\ dom.pc \in {"idle", "done"}
    /\ dom.calls < DomMaxCalls
    /\ LET fresh == [DomIdle EXCEPT !.calls = dom.calls + 1, !.input = inp,
                                    !.history = dom.history,
                                    !.metrics = [dom.metrics EXCEPT !.total_requests = @ + 1]]
           label == ClassifyRequest(inp)
           checked == [fresh EXCEPT !.request_type = label, !.policy_checked = TRUE,
                                    !.policy_allowed = CheckPolicies(label, inp)]
       IN  IF ~DomValidateInput(inp)
           THEN dom' = [fresh EXCEPT !.pc = "done", !.metrics.failed_requests = @ + 1,
                            !.outcome = [DomNoOutcome EXCEPT !.raised = TRUE,
                                                             !.error_type = "ValueError",
                                                             !.error = "Input-Validierung fehlgeschlagen"]]
           ELSE IF ~CheckPolicies(label, inp)
           THEN dom' = [checked EXCEPT !.pc = "done", !.metrics.failed_requests = @ + 1,
                            !.outcome = [DomNoOutcome EXCEPT !.error_type = "PermissionError",
                                                             !.error = "Policy-Verletzung",
                                                             !.request_type = label]]
           ELSE IF RouteToSubAgents(label) = <<>>
           THEN dom' = DomFinish(checked, <<>>)
           ELSE dom' = [checked EXCEPT !.pc = "kids", !.selected = RouteToSubAgents(label)]
    /\ UNCHANGED <<domCfg, domKid, notDom>>

\* _execute_sub_agents, one loop iteration: await the next selected child on
\* the input extended with the domain context; an exception it raises becomes
\* a non-success entry; after the last child execute aggregates and returns
DomainKidStep(o) ==
    /\ dom.pc = "kids"
    /\ dom.idx <= Len(dom.selected)
    /\ LET k == dom.selected[dom.idx]
           results == Append(dom.results, IF o = "raise" THEN "fail" ELSE o)
       IN  /\ domKid' = [domKid EXCEPT ![k].calls = @ + 1,
                             ![k].history = IF o \in {"ok_list", "ok_other"} THEN @ + 1 ELSE @]
           /\ IF dom.idx < Len(dom.selected)
              THEN dom' = [dom EXCEPT !.results = results, !.idx = @ + 1,
                                      !.invoked = Append(@, k)]
              ELSE dom' = DomFinish([dom EXCEPT !.idx = @ + 1, !.invoked = Append(@, k)],
                                    results)
    /\ UNCHANGED <<domCfg, notDom>>

\* add_sub_agent for children 1..n in order, child k with capabilities caps[k]:
\* the routing rules it leaves
RoutingRulesOf(n, caps) ==
    [l \in UNION {caps[k] : k \in 1..n} |->
        SelectSeq([k \in 1..n |-> k], LAMBDA k : l \in caps[k])]

\* the same when the first child's registration names the capability label
\* twice: routing_rules[label] then lists that child twice
RoutingRulesRepeated(n, caps, label) ==
    [RoutingRulesOf(n, caps) EXCEPT ![label] = <<1>> \o @]

\* the policies dict with group 'global' = g and group label = t, an empty
\* group not being set
PoliciesOf(g, label, t) ==
    [grp \in (IF g = {} THEN {} ELSE {"global"}) \cup (IF t = {} THEN {} ELSE {label}) |->
        IF grp = "global" THEN g ELSE t]

\* the request type the checked domain's capabilities and typed policies are about
MainLabel(type) == IF type = "mail_operations" THEN "mail_reply" ELSE "generic_request"

AtMostOneRule == {{}} \cup {{r} : r \in PolicyRules}

DomInit ==
    /\ \E type \in {"mail_operations", "custom"}, n \in 0..MaxDomKids,
          caps \in [DomKids -> SUBSET {"mail_reply", "generic_request"}],
          g \in AtMostOneRule, t \in AtMostOneRule, twice \in BOOLEAN :
          /\ \A k \in DomKids : caps[k] \subseteq (IF k <= n THEN {MainLabel(type)} ELSE {})
          /\ (g # {} /\ t # {}) => (g = {RuleRequiresX} /\ t = {RuleMaxOne})
          /\ twice => (n = 1 /\ type = "custom" /\ MainLabel(type) \in caps[1]
                          /\ g = {} /\ t = {})
          /\ domCfg = [domain_type |-> type,
                       sub_agents |-> [k \in 1..n |-> k],
                       routing_rules |-> IF twice
                                         THEN RoutingRulesRepeated(n, caps, MainLabel(type))
                                         ELSE RoutingRulesOf(n, caps),
                       policies |-> PoliciesOf(g, MainLabel(type), t)]
    /\ dom = DomIdle
    /\ domKid = [k \in DomKids |-> [calls |-> 0, history |-> 0]]
    /\ PipeAtRest /\ SubAtRest /\ EntAtRest /\ TreeAtRest /\ AtomAtRest /\ ConcAtRest /\ LimiterAtRest
    /\ nanoCfg = [n \in NanoIds |-> [required |-> {}, faultsFirst |-> 0]]
    /\ nano = [n \in NanoIds |-> NanoInit]
    /\ invLog = <<>>

DomNext ==
    \/ \E inp \in DomInputs : DomainCall(inp)
    \/ \E o \in SubExecuteOutcomes : DomainKidStep(o)

SpecDomain == DomInit /\ [][DomNext]_vars

\* --------------------------------------------------------- EnterpriseAgent
\* The enterprise's children are the DomainAgents 1..n in registration order.
\* A domain's execute is opaque here: it raises (its validate_input rejects
\* the input), returns non-success or returns success with the result dict
\* {'status': produces[k]}.  A dict that is merged or tested by a step's
\* conditions is a function from its keys to their values.  An input dict is the record of what the enterprise reads of it:
\* whether key user is present, the role and action ("absent": no such key),
\* the compliance triggers it carries (personal_data and health_data as keys,
\* prescription_required as a truthy value, amount as a value above 10000),
\* whether the waiver of each trigger it carries is truthy (consent,
\* hipaa_compliant, doctor_approval, aml_check), whether its text mentions
\* mail, and its process_type.

EntDomains == 1..MaxEntDomains
Industries == {"healthcare", "finance", "custom"}
DomainExecuteOutcomes == {"raise", "fail", "ok"}

\* user_roles
UserRoles ==
    [r \in {"admin", "operator", "viewer"} |->
        IF r = "admin" THEN {"*"}
        ELSE IF r = "operator" THEN {"execute", "view"}
        ELSE {"view"}]

ComplianceTriggers == {"personal_data", "health_data", "prescription_required", "amount"}

EntInputs ==
    {i \in [user : BOOLEAN,
            role : {"absent", "admin", "operator", "guest"},
            action : {"absent", "delete"},
            triggers : {{}, {"personal_data"}, {"health_data"}, {"prescription_required"},
                        {"amount"}, {"personal_data", "health_data"}},
            waived : BOOLEAN,
            text : {"none", "mail"},
            process_type : {"absent", "P1"}] :
        /\ <<i.role, i.action>> \in {<<"absent", "absent">>, <<"admin", "delete">>,
                                      <<"operator", "absent">>, <<"operator", "delete">>,
                                      <<"guest", "absent">>}
        /\ i.waived => i.triggers \in {{"personal_data"}, {"amount"}}
        /\ i.process_type = "P1" => i.text = "none"
        /\ (i.process_type = "P1" \/ i.text = "mail")
              => /\ ~i.waived /\ i.user /\ i.role # "absent" /\ i.action = "absent"
                 /\ i.triggers \in {{}, {"personal_data"}, {"prescription_required"}}
        /\ ~i.user => (~i.waived /\ i.triggers \in {{}, {"personal_data"}})}

\* the dicts of a business process: merging (dict.update), the keys of the
\* input a step's conditions may name, and the 'result' of domain k's
\* successful execute
EmptyDict == [f \in {} |-> "none"]
Merge(a, b) == [f \in DOMAIN a \cup DOMAIN b |-> IF f \in DOMAIN b THEN b[f] ELSE a[f]]
InputDict(inp) == [f \in {g \in {"role", "action", "process_type"} : inp[g] # "absent"} |-> inp[f]]
DomainResult(k) == [f \in {"status"} |-> entCfg.produces[k]]

\* one step of a business process flow; conditions is EmptyDict when the
\* step declares none
ProcessStep(domain, action, conditions) ==
    [domain |-> domain, action |-> action, conditions |-> conditions]

EntNoInput == [user |-> FALSE, role |-> "absent", action |-> "absent", triggers |-> {},
               waived |-> FALSE, text |-> "none", process_type |-> "absent"]

EntNoOutcome == [success |-> FALSE, raised |-> FALSE, error |-> "none",
                 business_process |-> "none", domains_invoked |-> <<>>]

EntIdle == [pc |-> "idle", calls |-> 0, input |-> EntNoInput,
            compliance_checked |-> FALSE, mode |-> "none", plan |-> <<>>, idx |-> 1,
            invoked |-> <<>>, results |-> <<>>, outcome |-> EntNoOutcome,
            total_requests |-> 0, error_log |-> <<>>, compliance_violations |-> <<>>,
            audit_trail |-> <<>>, history |-> 0, process_executions |-> 0,
            current_data |-> EmptyDict, considered |-> <<>>, kidOutcomes |-> <<>>,
            result_map |-> EmptyDict]

\* validate_input: the required fields of global_policies are keys of the input
EntValidateInput(inp) == "user" \in entCfg.required_fields => inp.user

\* _authenticate_and_authorize: role defaults to viewer, action to execute
AuthorizedAnyRole(inp) == TRUE
Authorized(inp) ==
    LET role == IF inp.role = "absent" THEN "viewer" ELSE inp.role
        action == IF inp.action = "absent" THEN "execute" ELSE inp.action
    IN  /\ role \in DOMAIN UserRoles
        /\ "*" \in UserRoles[role] \/ action \in UserRoles[role]

\* _check_compliance: the violations found
ComplianceViolationsNone(inp) == {}
ComplianceViolations(inp) ==
    {v \in {"DSGVO", "HIPAA", "prescription", "AML"} :
        /\ ~inp.waived
        /\ \/ v = "DSGVO" /\ "DSGVO" \in entCfg.compliance_requirements
                          /\ "personal_data" \in inp.triggers
           \/ v = "HIPAA" /\ "HIPAA" \in entCfg.compliance_requirements
                          /\ "health_data" \in inp.triggers
           \/ v = "prescription" /\ entCfg.industry = "healthcare"
                                 /\ "prescription_required" \in inp.triggers
           \/ v = "AML" /\ entCfg.industry = "finance" /\ "amount" \in inp.triggers}

\* _identify_business_process
IdentifyBusinessProcess(inp) ==
    IF inp.process_type # "absent" /\ inp.process_type \in DOMAIN entCfg.business_processes
    THEN inp.process_type
    ELSE IF entCfg.industry = "healthcare" /\ "prescription_required" \in inp.triggers
    THEN "prescription_handling"
    ELSE "None"

\* _identify_relevant_domains: the mail domains when the input mentions mail
IdentifyRelevantDomains(inp) ==
    IF inp.text = "mail"
    THEN SelectSeq([k \in 1..entCfg.domain_agents |-> k],
                   LAMBDA k : entCfg.domain_types[k] = "mail_operations")
    ELSE <<>>

\* _execute_standard_orchestration: the relevant domains, each called with the
\* input as it is
StandardPlan(inp) ==
    [i \in 1..Len(IdentifyRelevantDomains(inp)) |->
        ProcessStep(IdentifyRelevantDomains(inp)[i], "absent", EmptyDict)]

\* _evaluate_conditions: every named field is in the data with the expected value
ConditionsAlwaysHold(conditions, data) == TRUE
EvaluateConditions(conditions, data) ==
    \A f \in DOMAIN conditions : f \in DOMAIN data /\ data[f] = conditions[f]

\* one pass of the loop over process['flow'], as it happened: the step's
\* position, the running data of that moment, whether its conditions let it
\* through and whether its domain was awaited
StepConsidered(i, data, holds, dispatched) ==
    [step |-> i, data |-> data, holds |-> holds, dispatched |-> dispatched]

\* does an exception of a domain's execute leave the loop: the loop of a
\* business process has no try around the await, the standard orchestration
\* catches per domain
RaiseEndsCallAlways(mode) == TRUE
RaiseEndsCallNever(mode) == FALSE
RaiseEndsCall(mode) == mode = "process"

\* a _log_error that records nothing
LogErrorDropped(e, msg) == e

\* _log_error
LogError(e, msg) == [e EXCEPT !.error_log = Append(@, [request |-> e.calls, error |-> msg])]

\* execute, the except branch: error log, failed audit entry, error response
EntFail(e, msg) ==
    [LogError(e, msg) EXCEPT
        !.pc = "done",
        !.audit_trail = Append(@, [request |-> e.calls, status |-> "failed"]),
        !.outcome = [EntNoOutcome EXCEPT !.error = msg]]

\* execute from the post-processing on: success output, audit entry, history
EntSucceed(e) ==
    [e EXCEPT !.pc = "done",
              !.audit_trail = Append(@, [request |-> e.calls, status |-> "success"]),
              !.history = @ + 1,
              !.outcome = [EntNoOutcome EXCEPT
                              !.success = TRUE,
                              !.business_process = IdentifyBusinessProcess(e.input),
                              !.domains_invoked = e.invoked]]

\* _execute_business_process, from the top of the loop at step e.idx up to the
\* next domain's await: a step whose conditions fail on the running data is
\* passed over, a step naming an unregistered domain raises.  (The standard
\* orchestration's loop has neither.)
RECURSIVE EntAdvance(_)
EntAdvance(e) ==
    IF e.idx > Len(e.plan) THEN EntSucceed(e)
    ELSE IF e.mode # "process" THEN [e EXCEPT !.pc = "domains"]
    ELSE LET step == e.plan[e.idx]
             holds == step.conditions = EmptyDict
                        \/ EvaluateConditions(step.conditions, e.current_data)
             registered == step.domain \in 1..entCfg.domain_agents
             seen == [e EXCEPT !.considered =
                          Append(@, StepConsidered(e.idx, e.current_data, holds,
                                                   holds /\ registered))]
         IN  IF ~holds THEN EntAdvance([seen EXCEPT !.idx = @ + 1])
             ELSE IF ~registered THEN EntFail(seen, "Domain-Agent nicht gefunden")
             ELSE [seen EXCEPT !.pc = "domains"]

\* execute up to the first domain's await: request counter, validation,
\* authorization, compliance, and the choice between the named business
\* process and the standard orchestration
EnterpriseCall(inp) ==
    /\ ent.pc \in {"idle", "done"}
    /\ ent.calls < EntMaxCalls
    /\ LET fresh == [ent EXCEPT !.pc = "run", !.calls = @ + 1, !.input = inp,
                                !.compliance_checked = FALSE, !.mode = "none",
                                !.plan = <<>>, !.idx = 1, !.invoked = <<>>, !.results = <<>>,
                                !.current_data = EmptyDict, !.considered = <<>>,
                                !.kidOutcomes = <<>>, !.result_map = EmptyDict,
                                !.outcome = EntNoOutcome,
                                !.total_requests = @ + 1]
           checked == [fresh EXCEPT !.compliance_checked = TRUE]
           process == IdentifyBusinessProcess(inp)
       IN  IF ~EntValidateInput(inp)
           THEN ent' = [LogError(fresh, "Input-Validierung fehlgeschlagen") EXCEPT
                            !.pc = "done",
                            !.outcome = [EntNoOutcome EXCEPT
                                            !.error = "Input-Validierung fehlgeschlagen"]]
           ELSE IF ~Authorized(inp)
           THEN ent' = EntFail(fresh, "Nicht autorisiert")
           ELSE IF ComplianceViolations(inp) # {}
           THEN ent' = EntFail([checked EXCEPT !.compliance_violations =
                                   Append(@, [request |-> fresh.calls,
                                              violations |-> ComplianceViolations(inp)])],
                               "Compliance-Verletzung")
           ELSE IF process \in DOMAIN entCfg.business_processes
           THEN ent' = EntAdvance([checked EXCEPT !.mode = "process",
                                                  !.plan = entCfg.business_processes[process],
                                                  !.current_data = InputDict(inp),
                                                  !.process_executions = @ + 1])
           ELSE ent' = EntAdvance([checked EXCEPT !.mode = "standard",
                                                  !.plan = StandardPlan(inp)])
    /\ UNCHANGED <<entCfg, entDom, notEnt>>

\* _update_domain_monitoring: requests, and on success the success rate
\* (rate * (requests - 1) + 1) / requests, kept as the fraction num / den
UpdateDomainMonitoring(u, o) ==
    IF o = "ok"
    THEN [requests |-> u.requests + 1,
          num |-> u.num * u.requests + u.den,
          den |-> u.den * (u.requests + 1)]
    ELSE [u EXCEPT !.requests = @ + 1]

\* one domain's execute and what follows it up to the next await.  In the
\* standard orchestration a raising domain is recorded as a non-success
\* result and not monitored, and every result is kept under its domain's
\* name; in a business process a raising domain ends the call, and the
\* 'result' of a successful one is merged into the running data.
EnterpriseDomainStep(o) ==
    /\ ent.pc = "domains"
    /\ LET k == ent.plan[ent.idx].domain
           ends == o = "raise" /\ RaiseEndsCall(ent.mode)
           entry == IF o = "ok" THEN "ok" ELSE "fail"
           after == [ent EXCEPT !.invoked = Append(@, k), !.idx = @ + 1,
                                !.kidOutcomes = Append(@, [step |-> ent.idx, domain |-> k,
                                                           outcome |-> o]),
                                !.results = IF ends THEN @ ELSE Append(@, entry),
                                !.result_map = IF ent.mode = "standard"
                                               THEN Merge(@, [d \in {k} |-> entry]) ELSE @,
                                !.current_data = IF ent.mode = "process" /\ o = "ok"
                                                 THEN Merge(@, DomainResult(k)) ELSE @]
       IN  /\ entDom' = [entDom EXCEPT
                            ![k].calls = @ + 1,
                            ![k].succeeded = IF o = "ok" THEN @ + 1 ELSE @,
                            ![k].usage = IF o = "raise" THEN @
                                         ELSE UpdateDomainMonitoring(@, o)]
           /\ IF ends
              THEN ent' = EntFail(after, "Input-Validierung fehlgeschlagen fuer Domain")
              ELSE ent' = EntAdvance(after)
    /\ UNCHANGED <<entCfg, notEnt>>

\* the industry and compliance requirements of the enterprises checked
ComplianceSetups ==
    {[industry |-> "custom", requirements |-> {}],
     [industry |-> "custom", requirements |-> {"DSGVO", "HIPAA"}],
     [industry |-> "healthcare", requirements |-> {"DSGVO"}],
     [industry |-> "finance", requirements |-> {}]}

EntInit ==
    /\ \E c \in ComplianceSetups, req \in SUBSET {"user"}, n \in {MaxEntDomains - 1, MaxEntDomains} :
          entCfg = [industry |-> c.industry,
                    compliance_requirements |-> c.requirements,
                    required_fields |-> req,
                    domain_agents |-> n,
                    domain_types |-> [k \in EntDomains |-> "mail_operations"],
                    produces |-> [k \in EntDomains |-> "success"],
                    business_processes |->
                        [p \in {"P1"} |->
                            [k \in 1..MaxEntDomains |-> ProcessStep(k, "greet", EmptyDict)]]]
    /\ ent = EntIdle
    /\ entDom = [k \in EntDomains |->
                    [calls |-> 0, succeeded |-> 0, usage |-> [requests |-> 0, num |-> 0, den |-> 1]]]
    /\ PipeAtRest /\ SubAtRest /\ DomAtRest /\ TreeAtRest /\ AtomAtRest /\ ConcAtRest /\ LimiterAtRest
    /\ nanoCfg = [n \in NanoIds |-> [required |-> {}, faultsFirst |-> 0]]
    /\ nano = [n \in NanoIds |-> NanoInit]
    /\ invLog = <<>>

EntNext ==
    \/ \E inp \in EntInputs : EnterpriseCall(inp)
    \/ \E o \in DomainExecuteOutcomes : EnterpriseDomainStep(o)

SpecEnterprise == EntInit /\ [][EntNext]_vars

\* the inputs of an authorized, compliant caller: with or without the mail
\* keyword, naming the business process P1 or none
OrchInputs ==
    {i \in [user : {TRUE}, role : {"admin", "operator"}, action : {"absent"},
            triggers : {{}}, waived : {FALSE}, text : {"none", "mail"},
            process_type : {"absent", "P1"}] :
        i.process_type = "P1" => i.text = "none"}

\* the business process P1: domain 1 unconditionally, then the last domain
\* when the running data has status = success, then domain 1 for role admin,
\* then domain 1 when the running data has status = failed
OrchProcess ==
    <<ProcessStep(1, "first", EmptyDict),
      ProcessStep(MaxOrchDomains, "second", [f \in {"status"} |-> "success"]),
      ProcessStep(1, "third", [f \in {"role"} |-> "admin"]),
      ProcessStep(1, "fourth", [f \in {"status"} |-> "failed"])>>

\* an enterprise without compliance requirements whose domains are all
\* registered or all but the last; the first domain's type and the status
\* the first and the last domain report vary
OrchInit ==
    /\ \E n \in {MaxOrchDomains - 1, MaxOrchDomains},
          type1 \in {"mail_operations", "custom"},
          out1 \in {"success", "failed"}, outN \in {"success", "failed"} :
          entCfg = [industry |-> "custom",
                    compliance_requirements |-> {},
                    required_fields |-> {},
                    domain_agents |-> n,
                    domain_types |-> [k \in 1..MaxOrchDomains |->
                                         IF k = 1 THEN type1 ELSE "mail_operations"],
                    produces |-> [k \in 1..MaxOrchDomains |->
                                     IF k = 1 THEN out1
                                     ELSE IF k = MaxOrchDomains THEN outN ELSE "success"],
                    business_processes |-> [p \in {"P1"} |-> OrchProcess]]
    /\ ent = EntIdle
    /\ entDom = [k \in 1..MaxOrchDomains |->
                    [calls |-> 0, succeeded |-> 0, usage |-> [requests |-> 0, num |-> 0, den |-> 1]]]
    /\ PipeAtRest /\ SubAtRest /\ DomAtRest /\ TreeAtRest /\ AtomAtRest /\ ConcAtRest /\ LimiterAtRest
    /\ nanoCfg = [n \in NanoIds |-> [required |-> {}, faultsFirst |-> 0]]
    /\ nano = [n \in NanoIds |-> NanoInit]
    /\ invLog = <<>>

OrchNext ==
    \/ \E inp \in OrchInputs : EnterpriseCall(inp)
    \/ \E o \in DomainExecuteOutcomes : EnterpriseDomainStep(o)

SpecOrchestration == OrchInit /\ [][OrchNext]_vars

\* ------------------------------------------------------------- end to end
\* One enterprise with one domain, whose one child process has the atomic
\* child echo (child 1) and the workflow greet = [echo]; the business process
\* P1 is the single step (domain 1, action greet).  Here the tiers call each
\* other: a tier's await of its child is the child's own execute, and the
\* child's outcome is what the parent's step receives.

\* the inputs of an authorized, compliant caller naming P1, with or without a
\* text key and with or without the key workflow = greet
EndToEndInputs ==
    [user : {TRUE}, role : {"admin", "operator"}, action : {"absent"},
     triggers : {{}}, waived : {FALSE}, text : {"none", "mail"},
     process_type : {"P1"}, workflow : {"absent", "greet"}]

\* what the domain reads of the dict the enterprise passes it (the running
\* data plus 'action'): neither x nor amount, and the text key if there is one
DomInputOf(inp) ==
    [x |-> FALSE, text |-> IF inp.text = "mail" THEN "other" ELSE "absent", amount |-> 0]

\* what the process reads of the dict the domain passes it (the domain's
\* input plus 'domain_context'): no field of the atomic children's schemas,
\* and the workflow key if the caller gave one
SubInputOf(inp) ==
    [keys |-> {}, workflow |-> IF inp.workflow = "absent" THEN "default" ELSE inp.workflow]

\* how the domain sees the finished execute of its child process: raised,
\* non-success, success with a list final_result (workflow, fallback) or
\* success with another one
SubOutcomeKind ==
    IF sub.outcome.raised THEN "raise"
    ELSE IF ~sub.outcome.success THEN "fail"
    ELSE IF sub.outcome.final \in {"workflow_results", "context_results"} THEN "ok_list"
    ELSE "ok_other"

\* how the enterprise sees the finished execute of its domain
DomOutcomeKind ==
    IF dom.outcome.raised THEN "raise"
    ELSE IF dom.outcome.success THEN "ok"
    ELSE "fail"

\* EnterpriseAgent.execute up to the first domain's await
EndToEndCall ==
    /\ ent.calls < SubMaxCalls
    /\ \E inp \in EndToEndInputs : EnterpriseCall(inp)

\* the enterprise's await of its domain: DomainAgent.execute starts
EndToEndDomainCall ==
    /\ ent.pc = "domains"
    /\ dom.calls = entDom[ent.plan[ent.idx].domain].calls
    /\ DomainCall(DomInputOf(ent.input))

\* the domain's await of its child: SubAgent.execute starts
EndToEndSubCall ==
    /\ dom.pc = "kids"
    /\ sub.calls = domKid[dom.selected[dom.idx]].calls
    /\ SubCall(SubInputOf(ent.input))

\* the child process's execute is over: the domain's loop goes on
EndToEndSubReturn ==
    /\ dom.pc = "kids"
    /\ sub.pc = "done"
    /\ sub.calls = domKid[dom.selected[dom.idx]].calls + 1
    /\ DomainKidStep(SubOutcomeKind)

\* the domain's execute is over: the enterprise's loop goes on.  produces is
\* the status the domain's result will carry, fixed ahead of the run; a run
\* in which the domain reports another status is not continued.
EndToEndDomainReturn ==
    /\ ent.pc = "domains"
    /\ dom.pc = "done"
    /\ dom.calls = entDom[ent.plan[ent.idx].domain].calls + 1
    /\ dom.outcome.success => entCfg.produces[ent.plan[ent.idx].domain] = dom.outcome.status
    /\ EnterpriseDomainStep(DomOutcomeKind)

EndToEndInit ==
    /\ \E type \in {"mail_operations", "custom"}, status \in {"success", "failed"} :
          /\ entCfg = [industry |-> "custom",
                       compliance_requirements |-> {},
                       required_fields |-> {},
                       domain_agents |-> 1,
                       domain_types |-> [k \in {1} |-> type],
                       produces |-> [k \in {1} |-> status],
                       business_processes |->
                           [p \in {"P1"} |-> <<ProcessStep(1, "greet", EmptyDict)>>]]
          /\ domCfg = [domain_type |-> type,
                       sub_agents |-> <<1>>,
                       routing_rules |-> RoutingRulesOf(1, [k \in DomKids |-> {}]),
                       policies |-> PoliciesOf({}, MainLabel(type), {})]
    /\ ent = EntIdle
    /\ entDom = [k \in {1} |-> [calls |-> 0, succeeded |-> 0, usage |-> [requests |-> 0, num |-> 0, den |-> 1]]]
    /\ dom = DomIdle
    /\ domKid = [k \in DomKids |-> [calls |-> 0, history |-> 0]]
    /\ \E echo \in {"nano", "mikro"} :
          subCfg = [kind |-> [c \in SubKids |-> IF c = 1 THEN echo ELSE "nano"],
                    workflows |-> [w \in {"greet"} |-> <<1>>],
                    conditional_flows |-> <<>>,
                    stop_on_error |-> TRUE,
                    required_fields |-> {},
                    error_handlers |-> NoHandlers,
                    retry_config |-> [max_retries |-> DefaultMaxRetries,
                                      retry_delay |-> DefaultRetryDelay,
                                      exponential_backoff |-> TRUE]]
    /\ sub = SubIdle
    /\ kidHistory = [c \in SubKids |-> 0]
    /\ nanoCfg \in [NanoIds -> [required : SUBSET Fields, faultsFirst : {0, 1}]]
    /\ \A n \in NanoIds \ {1} : nanoCfg[n] = [required |-> {}, faultsFirst |-> 0]
    /\ nano = [n \in NanoIds |-> NanoInit]
    /\ invLog = <<>>
    /\ PipeAtRest /\ TreeAtRest /\ AtomAtRest /\ ConcAtRest /\ LimiterAtRest

EndToEndNext ==
    \/ EndToEndCall
    \/ EndToEndDomainCall
    \/ EndToEndSubCall
    \/ SubAttempt
    \/ SubSleep
    \/ EndToEndSubReturn
    \/ EndToEndDomainReturn

SpecEndToEnd == EndToEndInit /\ [][EndToEndNext]_vars

\* ------------------------------------------------ composition and registry
notTree == <<nanoCfg, nano, mikroCfg, mikro, invLog, subCfg, sub, kidHistory,
             domCfg, dom, domKid, entCfg, ent, entDom, atom, conc, limiter>>

\* a child-add, child-remove, register or unregister call can still be made
TreeOpAllowed == tree.ops + registry.ops < MaxTreeOps

\* list.remove(x): the list without the first occurrence of x
RECURSIVE ListRemove(_, _)
ListRemove(list, x) ==
    IF list = <<>> THEN <<>>
    ELSE IF Head(list) = x THEN Tail(list)
    ELSE <<Head(list)>> \o ListRemove(Tail(list), x)

\* list.pop(i)
ListPop(list, i) == SubSeq(list, 1, i - 1) \o SubSeq(list, i + 1, Len(list))

\* the tail every add method has: context.child_agents.append(child);
\* child.context.parent_agent = self
RegisterAsChild(t, parent, child) ==
    [t EXCEPT !.child_agents[parent] = Append(@, child),
              !.parent_agent[child] = parent,
              !.ops = @ + 1]

NoPosition == -1           \* position = None

\* MikroAgent.add_nano_agent(nano_agent, position): position None appends,
\* position 0 inserts in front
MikroAddNanoAgent(m, n, position) ==
    /\ TreeOpAllowed
    /\ tree' = RegisterAsChild(
                   [tree EXCEPT !.nano_agents[m] =
                        IF position = NoPosition THEN Append(@, n) ELSE <<n>> \o @],
                   m, n)
    /\ UNCHANGED <<registry, notTree>>

\* MikroAgent.remove_nano_agent(name): the first nano agent of that name leaves
\* nano_agents and child_agents; its parent_agent is not written
MikroRemoveNanoAgent(m, nm) ==
    /\ TreeOpAllowed
    /\ LET list == tree.nano_agents[m]
           hits == {i \in 1..Len(list) : NameOf[list[i]] = nm}
       IN  IF hits = {}
           THEN tree' = [tree EXCEPT !.ops = @ + 1]
           ELSE LET i == CHOOSE j \in hits : \A k \in hits : j <= k
                IN  tree' = [tree EXCEPT !.nano_agents[m] = ListPop(@, i),
                                         !.child_agents[m] = ListRemove(@, list[i]),
                                         !.ops = @ + 1]
    /\ UNCHANGED <<registry, notTree>>

\* SubAgent.add_mikro_agent(mikro_agent)
SubAddMikroAgent(s, m) ==
    /\ TreeOpAllowed
    /\ tree' = RegisterAsChild([tree EXCEPT !.sub_mikro_agents[s][NameOf[m]] = m], s, m)
    /\ UNCHANGED <<registry, notTree>>

\* SubAgent.add_nano_agent(nano_agent)
SubAddNanoAgent(s, n) ==
    /\ TreeOpAllowed
    /\ tree' = RegisterAsChild([tree EXCEPT !.sub_nano_agents[s][NameOf[n]] = n], s, n)
    /\ UNCHANGED <<registry, notTree>>

\* DomainAgent.add_sub_agent(sub_agent, capabilities)
DomainAddSubAgent(d, s, capabilities) ==
    /\ TreeOpAllowed
    /\ tree' = RegisterAsChild(
                   [tree EXCEPT !.sub_agents[d][NameOf[s]] = s,
                                !.routing_rules[d] =
                                    [c \in Capabilities |->
                                        IF c \in capabilities THEN Append(@[c], NameOf[s])
                                        ELSE @[c]]],
                   d, s)
    /\ UNCHANGED <<registry, notTree>>

\* AgentRegistry.get(agent_name): the agent or None
RegistryGet(r, nm) == r.agents[nm]

\* AgentRegistry.exists(agent_name)
RegistryExists(r, nm) == r.agents[nm] # NoNode

\* AgentRegistry.get_parent(agent_name): the name of the registered agent's
\* context.parent_agent, or None
GetParent(r, t, nm) ==
    IF r.agents[nm] = NoNode \/ t.parent_agent[r.agents[nm]] = NoNode THEN "none"
    ELSE NameOf[t.parent_agent[r.agents[nm]]]

\* AgentRegistry.get_children(agent_name): names of context.child_agents
GetChildren(r, t, nm) ==
    IF r.agents[nm] = NoNode THEN <<>>
    ELSE [i \in 1..Len(t.child_agents[r.agents[nm]]) |->
              NameOf[t.child_agents[r.agents[nm]][i]]]

\* a registry that never finds a name taken
NameNeverTaken(r, nm) == FALSE

\* the name is taken: register returns False before it writes anything
NameTaken(r, nm) == nm \in DOMAIN r.agents /\ r.agents[nm] # NoNode

\* AgentRegistry.register(agent)
Register(n) ==
    /\ TreeOpAllowed
    /\ LET nm == NameOf[n]
           called == [op |-> "register", name |-> nm, node |-> n, ret |-> FALSE,
                      before |-> registry.agents]
       IN  IF NameTaken(registry, nm)
           THEN registry' = [registry EXCEPT !.ops = @ + 1, !.last = called]
           ELSE registry' =
                    [registry EXCEPT
                        !.agents[nm] = n,
                        !.metadata_cache = @ \cup {nm},
                        \* INSERT OR REPLACE INTO agents: name is UNIQUE
                        !.rows = {x \in @ : NameOf[x] # nm} \cup {n},
                        !.relationships =
                            @ \cup {<<n, tree.child_agents[n][i]>> :
                                        i \in 1..Len(tree.child_agents[n])},
                        !.ops = @ + 1,
                        !.last = [called EXCEPT !.ret = TRUE]]
    /\ UNCHANGED <<tree, notTree>>

\* AgentRegistry.unregister(agent_name): the agent leaves agents, the cache and
\* both tables; no node's context is written
Unregister(nm) ==
    /\ TreeOpAllowed
    /\ LET called == [op |-> "unregister", name |-> nm, node |-> registry.agents[nm],
                      ret |-> FALSE, before |-> registry.agents]
           ids == {x \in registry.rows : NameOf[x] = nm}
       IN  IF registry.agents[nm] = NoNode
           THEN registry' = [registry EXCEPT !.ops = @ + 1, !.last = called]
           ELSE registry' =
                    [registry EXCEPT
                        !.agents[nm] = NoNode,
                        !.metadata_cache = @ \ {nm},
                        !.relationships = {p \in @ : p[1] \notin ids /\ p[2] \notin ids},
                        !.rows = @ \ ids,
                        !.ops = @ + 1,
                        !.last = [called EXCEPT !.ret = TRUE]]
    /\ UNCHANGED <<tree, notTree>>

TreeInit ==
    /\ tree = TreeIdle
    /\ registry = RegistryEmpty
    /\ nanoCfg = [n \in NanoIds |-> [required |-> {}, faultsFirst |-> 0]]
    /\ nano = [n \in NanoIds |-> NanoInit]
    /\ invLog = <<>>
    /\ PipeAtRest /\ SubAtRest /\ DomAtRest /\ EntAtRest /\ AtomAtRest /\ ConcAtRest /\ LimiterAtRest

TreeNext ==
    \/ \E m \in MikroNodes, n \in NanoNodes, position \in {NoPosition, 0} :
           MikroAddNanoAgent(m, n, position)
    \/ \E m \in MikroNodes, nm \in NodeNames : MikroRemoveNanoAgent(m, nm)
    \/ \E s \in SubNodes, m \in MikroNodes : SubAddMikroAgent(s, m)
    \/ \E s \in SubNodes, n \in NanoNodes : SubAddNanoAgent(s, n)
    \/ \E d \in DomainNodes, s \in SubNodes, caps \in SUBSET Capabilities :
           DomainAddSubAgent(d, s, caps)
    \/ \E n \in Nodes : Register(n)
    \/ \E nm \in NodeNames : Unregister(nm)

SpecRegistry == TreeInit /\ [][TreeNext]_vars

\* ------------------------------------------------- callbacks of a NanoAgent
notAtom == <<nanoCfg, nano, mikroCfg, mikro, invLog, subCfg, sub, kidHistory,
             domCfg, dom, domKid, entCfg, ent, entDom, tree, registry, conc, limiter>>

\* what the wrapped operation raises: the exception's type name and str()
Faults == {[kind |-> "ValueError", message |-> "m1"], [kind |-> "KeyError", message |-> "m2"]}
CallbackFault == [kind |-> "RuntimeError", message |-> "callback"]

\* a registered callback: the function registered as the id-th, which raises
\* or returns when called
Callback(id, faults) == [id |-> id, faults |-> faults]

\* the ids of the callbacks of a list, in list order
RECURSIVE CallbackIds(_)
CallbackIds(list) ==
    IF list = <<>> THEN <<>> ELSE <<Head(list).id>> \o CallbackIds(Tail(list))

\* a loop over the callbacks with no try around the call: the first callback
\* that raises ends the loop and the exception leaves trigger_callbacks
TriggerUncaught(list) ==
    LET faulting == {i \in 1..Len(list) : list[i].faults}
        first == CHOOSE i \in faulting : \A j \in faulting : i <= j
    IN  IF faulting = {}
        THEN [fired |-> CallbackIds(list), caught |-> 0, raised |-> FALSE]
        ELSE [fired |-> CallbackIds(SubSeq(list, 1, first)), caught |-> 0, raised |-> TRUE]

\* trigger_callbacks on the list registered for an event: each callback is
\* called in list order inside its own try; an exception is logged and the
\* loop goes on.  fired: the callbacks called; caught: the exceptions logged;
\* raised: an exception left trigger_callbacks
TriggerCallbacks(list) ==
    [fired |-> CallbackIds(list),
     caught |-> Cardinality({i \in 1..Len(list) : list[i].faults}),
     raised |-> FALSE]

\* the agent after trigger_callbacks(event) with the result t: one more entry
\* of the trigger log, holding the list registered at that moment.  The log
\* holds the triggers of the method call in progress or last made.
Triggered(a, event, t) ==
    [a EXCEPT !.triggers = Append(@, [event |-> event, call |-> a.calls,
                                      registered |-> CallbackIds(a.callbacks[event]),
                                      fired |-> t.fired]),
              !.callback_errors = @ + t.caught]

\* register_callback(event, callback) with a function not registered before
AtomRegisterCallback(event, faults) ==
    /\ atom.registered < MaxCallbacks
    /\ atom' = [atom EXCEPT !.registered = @ + 1,
                            !.callbacks[event] = Append(@, Callback(atom.registered + 1, faults))]
    /\ UNCHANGED notAtom

\* start() and stop(): _is_running is written, then the event is triggered;
\* an exception leaving trigger_callbacks leaves the method
AtomLifecycle(event) ==
    /\ atom.pc \in {"idle", "done"}
    /\ atom.calls + atom.lifecycle < AtomMaxCalls
    /\ atom.is_running = (event = "stop")
    /\ atom' = [Triggered([atom EXCEPT !.triggers = <<>>], event,
                          TriggerCallbacks(atom.callbacks[event])) EXCEPT
                    !.is_running = (event = "start"), !.lifecycle = @ + 1]
    /\ UNCHANGED notAtom

\* an execute without the except branch: the exception reaches the caller
AtomFaultPropagates(fault) ==
    [AtomNoOutcome EXCEPT !.raised = TRUE, !.error_type = fault.kind, !.error = fault.message]

\* the error dict execute returns from its except branch
AtomErrorOutput(fault) ==
    [AtomNoOutcome EXCEPT !.error_type = fault.kind, !.error = fault.message]

\* the exception execute raises to its caller
AtomRaised(fault) ==
    [AtomNoOutcome EXCEPT !.raised = TRUE, !.error_type = fault.kind, !.error = fault.message]

\* execute's except branch: the error dict is built, on_error is triggered,
\* the dict is returned
AtomExcept(a, fault) ==
    LET t == TriggerCallbacks(a.callbacks["on_error"])
        after == Triggered(a, "on_error", t)
    IN  [after EXCEPT !.pc = "done",
                      !.outcome = IF t.raised THEN AtomRaised(CallbackFault)
                                  ELSE AtomErrorOutput(fault)]

\* execute up to the await of the wrapped operation: validate_input (a
\* rejected input raises ValueError), then before_execute is triggered
AtomExecuteCall(inp) ==
    /\ atom.pc \in {"idle", "done"}
    /\ atom.calls + atom.lifecycle < AtomMaxCalls
    /\ LET fresh == [atom EXCEPT !.calls = @ + 1, !.input = inp, !.outcome = AtomNoOutcome,
                                 !.triggers = <<>>, !.operation = NoFault]
           t == TriggerCallbacks(atom.callbacks["before_execute"])
       IN  IF ~(atom.required \subseteq inp)
           THEN atom' = [fresh EXCEPT !.pc = "done",
                            !.outcome = AtomRaised([kind |-> "ValueError",
                                                    message |-> "Input-Validierung fehlgeschlagen"])]
           ELSE IF t.raised
           THEN atom' = [Triggered(fresh, "before_execute", t) EXCEPT
                            !.pc = "done", !.outcome = AtomRaised(CallbackFault)]
           ELSE atom' = [Triggered(fresh, "before_execute", t) EXCEPT !.pc = "running"]
    /\ UNCHANGED notAtom

\* the wrapped operation returned: execution_count, the output dict, the
\* history entry, after_execute; an exception from there on reaches the
\* except branch like one of the operation
AtomOperationReturns ==
    /\ atom.pc = "running"
    /\ LET t == TriggerCallbacks(atom.callbacks["after_execute"])
           counted == [atom EXCEPT !.execution_count = @ + 1, !.history = @ + 1,
                                   !.operation = Returned]
           after == Triggered(counted, "after_execute", t)
       IN  IF t.raised
           THEN atom' = AtomExcept(after, CallbackFault)
           ELSE atom' = [after EXCEPT !.pc = "done",
                             !.outcome = [AtomNoOutcome EXCEPT
                                             !.success = TRUE, !.hasResult = TRUE,
                                             !.execution_count = counted.execution_count]]
    /\ UNCHANGED notAtom

\* the wrapped operation raised the exception fault
AtomOperationFaults(fault) ==
    /\ atom.pc = "running"
    /\ atom' = AtomExcept([atom EXCEPT !.operation = fault], fault)
    /\ UNCHANGED notAtom

AtomInit ==
    /\ atom \in {AtomIdle(required) : required \in SUBSET Fields}
    /\ tree = TreeIdle
    /\ registry = RegistryEmpty
    /\ nanoCfg = [n \in NanoIds |-> [required |-> {}, faultsFirst |-> 0]]
    /\ nano = [n \in NanoIds |-> NanoInit]
    /\ invLog = <<>>
    /\ PipeAtRest /\ SubAtRest /\ DomAtRest /\ EntAtRest /\ ConcAtRest /\ LimiterAtRest

AtomNext ==
    \/ \E event \in Events, faults \in BOOLEAN : AtomRegisterCallback(event, faults)
    \/ \E event \in {"start", "stop"} : AtomLifecycle(event)
    \/ \E inp \in Inputs : AtomExecuteCall(inp)
    \/ AtomOperationReturns
    \/ \E fault \in Faults : AtomOperationFaults(fault)

SpecAtomic == AtomInit /\ [][AtomNext]_vars

\* =================================================================== claims

\* ---- pipeline (SpecPipeline)
IsSequentialRun == mikroCfg.pipeline_mode = "sequential" /\ mikro.pc \in {"seq", "done"}
IsParallelRun == mikroCfg.pipeline_mode = "parallel" /\ mikro.pc \in {"par", "done"}
\* the execute under way or just over passed the pipeline's own validation
MikroRan == mikro.calls > 0 /\ ~mikro.outcome.raised

\* C3 (as claimed): when child k (0-based) of a sequential pipeline is the
\* first to return non-success, the pipeline's non-success outcome carries
\* failed_at_step = k and partial_results = the successes of children 0..k-1
\* followed by child k's failure.  The list the loop collected is seqResults.
C3_FailureCarriesIndexAndPartials ==
    (/\ IsSequentialRun /\ mikro.pc = "done"
     /\ mikro.seqResults # <<>>
     /\ ~mikro.seqResults[Len(mikro.seqResults)].success)
    => /\ ~mikro.outcome.success
       /\ mikro.outcome.failed_at_step = Len(mikro.seqResults) - 1
       /\ mikro.outcome.partial_results = mikro.seqResults

\* C4: in a sequential pipeline, once a child has returned a non-success
\* outcome, no child at a later index is invoked during that execute (the
\* failing child's call stays the last entry of the invocation log) and the
\* pipeline's execute is over with a non-success outcome.
C4_NoChildAfterFailure ==
    IsSequentialRun =>
        \A j \in 1..Len(mikro.seqResults) :
            ~mikro.seqResults[j].success =>
                /\ Len(invLog) = j
                /\ invLog[j].agent = mikroCfg.nano_agents[j]
                /\ mikro.pc = "done"
                /\ ~mikro.outcome.success
                /\ ~mikro.outcome.raised

\* C4 witness: a pipeline of three, the second child returned non-success, the
\* third was never invoked
C4_Witness ==
    /\ IsSequentialRun /\ mikro.pc = "done" /\ NumNanos = 3
    /\ Len(mikro.seqResults) = 2
    /\ mikro.seqResults[1].success /\ ~mikro.seqResults[2].success
    /\ Len(invLog) = 2

\* the per-child outcomes a finished pipeline execute reports
ReportedOutcomes ==
    IF mikro.outcome.success THEN mikro.outcome.nano_results
    ELSE mikro.outcome.partial_results

\* C5: in a parallel pipeline with N children, an execute invokes every child
\* exactly once whatever its siblings do, is over only when all N child
\* executes are over, and reports exactly N per-child outcomes, entry i being
\* the one child i produced.
C5_ParallelRunsAllAndAligns ==
    (IsParallelRun /\ MikroRan /\ mikro.pc = "done") =>
        /\ Len(invLog) = NumNanos
        /\ \A i \in 1..NumNanos :
              Cardinality({j \in 1..Len(invLog) : invLog[j].agent = mikroCfg.nano_agents[i]}) = 1
        /\ \A i \in 1..NumNanos : mikro.task[i] = "done"
        /\ Len(ReportedOutcomes) = NumNanos
        /\ \A i \in 1..NumNanos :
              /\ ReportedOutcomes[i].agent = mikroCfg.nano_agents[i]
              /\ ReportedOutcomes[i] = ProcessedResult(mikro.taskOut[i])
              /\ ReportedOutcomes[i].success
                     = (/\ NanoValidateInput(mikroCfg.nano_agents[i], mikro.input)
                        /\ ~ActionFaults(mikroCfg.nano_agents[i], mikro.taskK[i]))

\* C5 witness: three children ran in parallel, the first faulted, the second
\* was rejected by its own validation, the third succeeded, all three reported
C5_Witness ==
    /\ IsParallelRun /\ MikroRan /\ mikro.pc = "done" /\ NumNanos = 3
    /\ Len(ReportedOutcomes) = 3
    /\ ~ReportedOutcomes[1].success /\ mikro.taskK[1] > 0
    /\ ~ReportedOutcomes[2].success /\ mikro.taskOut[2].raised
    /\ ReportedOutcomes[3].success

\* ---- process retry (SpecRetry)
\* the retry policy of the claim: maxAttempts 3, baseDelay 1, exponential backoff
ClaimedRetryPolicy ==
    subCfg.retry_config = [max_retries |-> 3, retry_delay |-> 1, exponential_backoff |-> TRUE]

\* child c was invoked by the process's execute, each time with data it accepts
InvokedValid(c) ==
    /\ \E j \in 1..Len(invLog) : invLog[j].agent = c
    /\ \A j \in 1..Len(invLog) : invLog[j].agent = c => NanoValidateInput(c, invLog[j].data)

\* C1 (as claimed): a process with maxAttempts 3, exponential backoff and
\* baseDelay 1 that invokes an atomic child whose operation faults on its first
\* two invocations and succeeds on the third ends its execute with the
\* operation invoked exactly 3 times, a cumulative retry wait of at least 3 and
\* a success outcome of that child.
C1_FaultTwiceThenSucceed ==
    \A c \in SubKids :
        (/\ sub.pc = "done" /\ sub.calls = 1
         /\ ClaimedRetryPolicy
         /\ subCfg.kind[c] = "nano"
         /\ nanoCfg[c].faultsFirst = 2
         /\ InvokedValid(c))
        => /\ nano[c].opCalls = 3
           /\ sub.waited >= 3
           /\ \E j \in 1..Len(sub.ctxResults) :
                 sub.ctxResults[j].agent = c /\ sub.ctxResults[j].success

\* every attempt made so far on the current child raised
AllAttemptsFaulted == sub.pc # "idle" /\ sub.attempts > 0 /\ sub.retries = sub.attempts

\* C2 (as claimed): a child invocation whose attempts all fault is attempted
\* at most maxAttempts times (3 by default): never a (maxAttempts+1)-th attempt.
C2_AtMostMaxAttempts ==
    (AllAttemptsFaulted /\ subCfg.retry_config.max_retries = DefaultMaxRetries)
    => sub.attempts <= subCfg.retry_config.max_retries

\* C2 (amended): a child invocation is attempted at most max_retries + 1 times
\* (the first attempt plus max_retries retries, 4 by default); while every
\* attempt has raised and fewer than max_retries + 1 were made the process
\* tries again, and the fault reaches the error-handler stage from the retry
\* loop only after exactly max_retries + 1 raised attempts.
C2_AtMostMaxRetriesPlusOne ==
    /\ sub.pc # "idle" => sub.attempts <= subCfg.retry_config.max_retries + 1
    /\ (AllAttemptsFaulted /\ sub.attempts <= subCfg.retry_config.max_retries)
           => sub.pc \in {"attempt", "sleep"}
    /\ (sub.pc = "done" /\ sub.cause = "retries_exhausted")
           => /\ sub.attempts = subCfg.retry_config.max_retries + 1
              /\ sub.retries = sub.attempts
              /\ sub.handled = "ValueError"
              /\ Len(invLog) >= sub.attempts
              /\ \A k \in 0..(sub.attempts - 1) :
                    invLog[Len(invLog) - k].agent = sub.cur

\* C2 witness: with the default max_retries = 3 a child raised four times in a
\* row and the fault reached the error-handler stage
C2_Witness ==
    /\ sub.pc = "done" /\ sub.cause = "retries_exhausted"
    /\ subCfg.retry_config.max_retries = 3
    /\ sub.attempts = 4


\* ---- domain claims (SpecDomain)

\* some rule of group 'global' or of the classified request type's group is
\* not satisfied by the input of the domain's current call
AnyPolicyRuleFails ==
    \E grp \in {"global", dom.request_type} \cap DOMAIN domCfg.policies :
        \E rule \in domCfg.policies[grp] : ~EvaluatePolicyRule(rule, dom.input)

\* the error kind a domain outcome reports
DomErrorKind(out) ==
    IF out.success THEN "none"
    ELSE IF out.error_type = "PermissionError" /\ out.error = "Policy-Verletzung"
    THEN "PolicyViolation"
    ELSE IF out.error_type = "ValueError" /\ out.error = "Input-Validierung fehlgeschlagen"
    THEN "InvalidInput"
    ELSE "Fault"

\* C8: a domain execute whose classified input fails a rule of group 'global'
\* or of the classified label's group ends at once in a returned non-success
\* outcome of kind PolicyViolation, and the step that decides it invokes no
\* child process: no child is selected, none is executed, and no child's
\* call counter or history changes.
C8_PolicyViolationBeforeChildren ==
    [][ (dom'.calls > 0 /\ dom'.policy_checked /\ AnyPolicyRuleFails')
          => /\ dom'.pc = "done"
             /\ ~dom'.outcome.success /\ ~dom'.outcome.raised
             /\ DomErrorKind(dom'.outcome) = "PolicyViolation"
             /\ dom'.selected = <<>> /\ dom'.results = <<>>
             /\ domKid' = domKid ]_vars

\* C8 witness: a second call, after a first one that executed a child, fails a
\* rule of its request type's group although a child is registered for that
\* request type, and is rejected.
C8_Witness ==
    /\ dom.calls = 2 /\ dom.pc = "done" /\ dom.policy_checked
    /\ \E k \in DomKids : domKid[k].calls > 0
    /\ dom.request_type \in DOMAIN domCfg.policies
    /\ dom.request_type \in DOMAIN domCfg.routing_rules
    /\ \E rule \in domCfg.policies[dom.request_type] : ~EvaluatePolicyRule(rule, dom.input)
    /\ DomErrorKind(dom.outcome) = "PolicyViolation"


\* ---- enterprise claims (SpecEnterprise)

\* the role and action a call is authorized on, and the claim's condition for
\* refusing it: the role is unknown, or its permissions hold neither * nor the action
RequestedRole(inp) == IF inp.role = "absent" THEN "viewer" ELSE inp.role
RequestedAction(inp) == IF inp.action = "absent" THEN "execute" ELSE inp.action
NotPermitted(inp) ==
    \/ RequestedRole(inp) \notin {"admin", "operator", "viewer"}
    \/ UserRoles[RequestedRole(inp)] \cap {"*", RequestedAction(inp)} = {}

\* the input violates a compliance check the enterprise is configured with
ViolatesConfiguredCheck(inp) ==
    /\ ~inp.waived
    /\ \/ "DSGVO" \in entCfg.compliance_requirements /\ "personal_data" \in inp.triggers
       \/ "HIPAA" \in entCfg.compliance_requirements /\ "health_data" \in inp.triggers
       \/ entCfg.industry = "healthcare" /\ "prescription_required" \in inp.triggers
       \/ entCfg.industry = "finance" /\ "amount" \in inp.triggers

\* the error kind an enterprise outcome reports (the error response carries
\* the kind in its message only)
EntErrorKind(out) ==
    IF out.success THEN "none"
    ELSE IF out.error = "Nicht autorisiert" THEN "NotAuthorized"
    ELSE IF out.error = "Compliance-Verletzung" THEN "ComplianceViolation"
    ELSE IF out.error = "Input-Validierung fehlgeschlagen" THEN "InvalidInput"
    ELSE "Fault"

\* C7 (as claimed): after n completed enterprise execute calls, whatever their
\* kind, the audit trail holds exactly n entries, the i-th being the i-th
\* call's, each with status success or failed.
C7_OneAuditEntryPerCall ==
    ent.pc \in {"idle", "done"}
        => /\ Len(ent.audit_trail) = ent.calls
           /\ \A i \in 1..Len(ent.audit_trail) :
                 /\ ent.audit_trail[i].request = i
                 /\ ent.audit_trail[i].status \in {"success", "failed"}

\* C9: an enterprise execute whose role is unknown, or whose role's
\* permissions hold neither * nor the requested action, ends in the step that
\* starts it with a returned non-success outcome, of kind NotAuthorized when
\* the input passed validation; in that call no compliance check runs (and the
\* violations ledger is untouched) and no domain is invoked or monitored.
C9_UnauthorizedStopsBeforeComplianceAndDomains ==
    [][ (ent'.calls = ent.calls + 1 /\ NotPermitted(ent'.input))
          => /\ ent'.pc = "done"
             /\ ~ent'.outcome.success /\ ~ent'.outcome.raised
             /\ EntValidateInput(ent'.input) => EntErrorKind(ent'.outcome) = "NotAuthorized"
             /\ ~ent'.compliance_checked
             /\ ent'.compliance_violations = ent.compliance_violations
             /\ ent'.invoked = <<>> /\ ent'.plan = <<>>
             /\ entDom' = entDom ]_vars

\* C9 witness: a second call by an unknown role is refused although its input
\* is valid, mentions mail with a mail domain registered, and carries
\* personal data without consent under DSGVO; the first call ran a domain.
C9_Witness ==
    /\ ent.calls = 2 /\ ent.pc = "done"
    /\ ent.input.role = "guest" /\ NotPermitted(ent.input)
    /\ EntValidateInput(ent.input)
    /\ ViolatesConfiguredCheck(ent.input)
    /\ ent.input.text = "mail" /\ entCfg.domain_agents >= 1
    /\ entDom[1].calls > 0
    /\ EntErrorKind(ent.outcome) = "NotAuthorized"

\* C10: an enterprise call that passes validation and authorization and
\* violates a configured compliance check ends in the step that starts it
\* with a returned non-success outcome of kind ComplianceViolation, invokes
\* no domain, and appends exactly one entry, its own, to the violations
\* ledger; no other step (a call that is invalid, unauthorized or compliant,
\* or a domain's execution) changes the ledger.
C10_LedgerGrowsOnlyOnViolation ==
    [][ IF /\ ent'.calls = ent.calls + 1
           /\ EntValidateInput(ent'.input)
           /\ ~NotPermitted(ent'.input)
           /\ ViolatesConfiguredCheck(ent'.input)
        THEN /\ ent'.pc = "done"
             /\ ~ent'.outcome.success /\ ~ent'.outcome.raised
             /\ EntErrorKind(ent'.outcome) = "ComplianceViolation"
             /\ ent'.invoked = <<>> /\ entDom' = entDom
             /\ Len(ent'.compliance_violations) = Len(ent.compliance_violations) + 1
             /\ SubSeq(ent'.compliance_violations, 1, Len(ent.compliance_violations))
                   = ent.compliance_violations
             /\ ent'.compliance_violations[Len(ent'.compliance_violations)].request = ent'.calls
        ELSE ent'.compliance_violations = ent.compliance_violations ]_vars

\* C10 witness: after a first call that ran a domain, a second call by an
\* authorized role, mentioning mail with a mail domain registered, violates a
\* configured check: it is refused and the ledger holds that one entry.
C10_Witness ==
    /\ ent.calls = 2 /\ ent.pc = "done"
    /\ EntValidateInput(ent.input) /\ ~NotPermitted(ent.input)
    /\ ViolatesConfiguredCheck(ent.input)
    /\ ent.input.text = "mail" /\ entCfg.domain_agents >= 1
    /\ entDom[1].calls > 0
    /\ Len(ent.compliance_violations) = 1
    /\ ent.compliance_violations[1].request = 2
    /\ EntErrorKind(ent.outcome) = "ComplianceViolation"

\* ---- all tiers

\* C6 (as claimed): at every tier, an execute on an input its validate_input
\* rejects returns a non-success outcome of kind InvalidInput, and no execute
\* ever ends by raising to its caller.  Stated for the pipeline and, in a
\* parallel pipeline, its atomic children; for the process; for the domain;
\* and for the enterprise.
C6_InvalidInputIsReturnedNotRaised ==
    /\ mikro.pc = "done"
          => /\ ~mikro.outcome.raised
             /\ ~MikroValidateInput(mikro.input)
                   => (~mikro.outcome.success /\ mikro.outcome.error_type = "InvalidInput")
    /\ mikro.pc \in {"par", "done"}
          => \A n \in NanoIds : mikro.task[n] = "done" => ~mikro.taskOut[n].raised
    /\ sub.pc = "done"
          => /\ ~sub.outcome.raised
             /\ ~SubValidateInput(sub.input)
                   => (~sub.outcome.success /\ sub.outcome.error_type = "InvalidInput")
    /\ dom.pc = "done"
          => /\ ~dom.outcome.raised
             /\ ~DomValidateInput(dom.input)
                   => (~dom.outcome.success /\ DomErrorKind(dom.outcome) = "InvalidInput")
    /\ ent.pc = "done"
          => /\ ~ent.outcome.raised
             /\ ~EntValidateInput(ent.input)
                   => (~ent.outcome.success /\ EntErrorKind(ent.outcome) = "InvalidInput")


\* ---- domain routing (SpecDomain)

\* the children the claim expects a policy-clean call of request type L to
\* invoke: the entry of L in the routing table if there is one, else the
\* first-registered child (none when no child is registered)
ExpectedRouting(L) ==
    IF L \in DOMAIN domCfg.routing_rules THEN domCfg.routing_rules[L]
    ELSE IF Len(domCfg.sub_agents) >= 1 THEN <<1>>
    ELSE <<>>

IsPrefix(a, b) == Len(a) <= Len(b) /\ a = SubSeq(b, 1, Len(a))

\* the current execute of the process passed validation and its input selects
\* a registered workflow; the steps of that workflow
IsWorkflowRun ==
    /\ sub.pc # "idle" /\ sub.calls > 0
    /\ SubValidateInput(sub.input)
    /\ sub.input.workflow \in DOMAIN subCfg.workflows
WorkflowSteps == subCfg.workflows[sub.input.workflow]

\* the children of the execute calls logged so far, in call order
InvokedKids == [i \in 1..Len(invLog) |-> invLog[i].agent]

\* every dispatched child but the last was executed exactly once, and the
\* last one sub.attempts times
OneExecutePerEarlierDispatch ==
    /\ Len(invLog) = (IF sub.dispatched = <<>> THEN 0 ELSE Len(sub.dispatched) - 1) + sub.attempts
    /\ \A i \in 1..Len(invLog) :
          InvokedKids[i] = sub.dispatched[IF i < Len(sub.dispatched) THEN i ELSE Len(sub.dispatched)]

ProducedValue(r) == ActionResult(r.agent)

\* the result that was last in context['results'] when the j-th execute call
\* of a workflow run was prepared (raising attempts add no result and only
\* the last dispatched step can have raised)
ResultBefore(j) ==
    sub.ctxResults[IF j - 1 < Len(sub.ctxResults) THEN j - 1 ELSE Len(sub.ctxResults)]

\* C13 (as claimed): in a workflow run, the input of every execute call that
\* follows a successful step contains that step's producedValue, whether the
\* step is a nano child or a pipeline child.
C13_NextStepGetsProducedValue ==
    IsWorkflowRun
        => \A j \in 2..Len(invLog) :
              (sub.ctxResults # <<>> /\ ResultBefore(j).success)
                  => ProducedValue(ResultBefore(j)) \subseteq invLog[j].data


\* a valid call that selected no workflow: the conditional flows, then
\* possibly the fallback, have run or are running
IsFlowRun == sub.calls > 0 /\ sub.stage \in {"flows", "fallback"}

Flows == subCfg.conditional_flows

\* the child selected by the i-th evaluation returned a result
SelectedReturned(i) == sub.evaluated[i].step + 1 <= Len(sub.ctxResults)
SelectedResult(i) == sub.ctxResults[sub.evaluated[i].step + 1]

FaultHandled == sub.pc = "done" /\ sub.cause # "none"

\* the kind of the fault, from the statement that raised it: the exception
\* of _execute_workflow / the fallback under stop_on_error, the ValueError of
\* an unknown step, or the exception the child's last attempt raised
FaultKind ==
    IF sub.cause = "stop_on_error" THEN "Exception"
    ELSE IF sub.cause = "agent_not_found" THEN "ValueError"
    ELSE NanoExecuteOutcome(sub.cur, invLog[Len(invLog)].data, 0).error_type

\* C15: a fault in the error-handler stage is recovered (success, recovered,
\* the handler's payload) when a handler is registered for its kind and
\* returns a payload; with no handler for the kind, a handler that raises or
\* one that returns no payload, the outcome is non-success (returned, not
\* raised) with the fault's kind and message
C15_HandlerPayloadRecoversElseOriginalFault ==
    FaultHandled
        => IF subCfg.error_handlers[FaultKind] = "payload"
           THEN /\ sub.outcome.success /\ sub.outcome.recovered /\ ~sub.outcome.raised
                /\ sub.outcome.recovery_result = "payload"
           ELSE /\ ~sub.outcome.success /\ ~sub.outcome.recovered /\ ~sub.outcome.raised
                /\ sub.outcome.error_type = FaultKind
                /\ sub.outcome.error = sub.cause

\* C15 witness: a child raised ValueError on every attempt, the handler
\* registered for ValueError returned a payload and the call is recovered
C15_Witness ==
    /\ FaultHandled /\ sub.cause = "retries_exhausted" /\ FaultKind = "ValueError"
    /\ subCfg.error_handlers["ValueError"] = "payload"
    /\ sub.outcome.recovered

\* every child registered with the process, in insertion order
RegisteredKids == [c \in 1..MaxKids |-> c]

\* the children dispatched by the fallback loop of the call
FallbackDispatched == SubSeq(sub.dispatched, Len(sub.decisions) + 1, Len(sub.dispatched))

\* the fallback of the finished call ran, no child's execute raised and no
\* error handler recovered the call
FallbackRan ==
    /\ sub.pc = "done" /\ sub.stage = "fallback"
    /\ sub.cause # "retries_exhausted" /\ ~sub.outcome.recovered

\* C16: the fallback invokes the registered children in insertion order; it
\* stops before the last child exactly when a child returned non-success and
\* stop_on_error is true, and then the outcome is non-success; otherwise
\* every child is invoked and the outcome is success
C16_FallbackInvokesEveryChild ==
    FallbackRan
        => /\ IsPrefix(FallbackDispatched, RegisteredKids)
           /\ IF subCfg.stop_on_error /\ \E j \in 1..Len(sub.ctxResults) :
                                             j > Len(sub.decisions) /\ ~sub.ctxResults[j].success
              THEN /\ ~sub.outcome.success
                   /\ ~sub.ctxResults[Len(sub.ctxResults)].success
              ELSE /\ FallbackDispatched = RegisteredKids
                   /\ sub.outcome.success

\* the same over the MikroAgent children only, which is what the fallback
\* loop iterates
FallbackInvokesEveryMikroKid ==
    FallbackRan
        => /\ IsPrefix(FallbackDispatched, MikroKids)
           /\ IF subCfg.stop_on_error /\ \E j \in 1..Len(sub.ctxResults) :
                                             j > Len(sub.decisions) /\ ~sub.ctxResults[j].success
              THEN /\ ~sub.outcome.success
                   /\ ~sub.ctxResults[Len(sub.ctxResults)].success
              ELSE /\ FallbackDispatched = MikroKids
                   /\ sub.outcome.success

\* the sequential pipeline's call is over and every child returned success
SequentialAllSucceeded ==
    /\ mikro.pc = "done" /\ mikroCfg.pipeline_mode = "sequential"
    /\ NumNanos > 0 /\ Len(mikro.seqResults) = NumNanos
    /\ \A i \in 1..NumNanos : mikro.seqResults[i].success

\* C17: in a sequential pipeline whose children all succeed, the children's
\* execute calls are the list, once each and in order; the first child gets
\* the pipeline's input, every later child gets exactly what the child before
\* it produced, and final_output is what the last child produced
C17_SequentialThreadsProducedValues ==
    SequentialAllSucceeded
        => /\ Len(invLog) = NumNanos
           /\ \A i \in 1..NumNanos : invLog[i].agent = mikroCfg.nano_agents[i]
           /\ invLog[1].data = mikro.input
           /\ \A i \in 1..(NumNanos - 1) :
                 invLog[i + 1].data = ActionResult(mikroCfg.nano_agents[i])
           /\ mikro.outcome.success
           /\ mikro.outcome.final_output = ActionResult(mikroCfg.nano_agents[NumNanos])

\* C17 witness: a sequential pipeline of three children, called with field 0,
\* has finished with every child successful
C17_Witness ==
    /\ SequentialAllSucceeded /\ NumNanos = 3 /\ mikro.input = {0}
    /\ Len(invLog) = 3

\* no execute of the domain is in flight
DomAtRestBetweenCalls == dom.pc \in {"idle", "done"}

\* C18: total_requests is the number of execute calls made so far, whatever
\* their outcome; with no call in flight it is the sum of
\* successful_requests and failed_requests, and a call in flight is the one
\* request counted in neither yet
C18_RequestCountersAddUp ==
    /\ dom.metrics.total_requests = dom.calls
    /\ dom.metrics.successful_requests + dom.metrics.failed_requests
          = IF DomAtRestBetweenCalls THEN dom.metrics.total_requests
            ELSE dom.metrics.total_requests - 1

\* C18 witness: two calls are over, an earlier one counted as failed and the
\* last one, which ran a child, counted as successful
C18_Witness ==
    /\ dom.pc = "done" /\ dom.calls = 2
    /\ dom.metrics.failed_requests = 1 /\ dom.metrics.successful_requests = 1
    /\ dom.outcome.success /\ dom.invoked # <<>>

\* a call that runs or ran a registered business process
IsProcessRun == ent.calls > 0 /\ ent.mode = "process"

\* what the guard of a step says on the dict data (no guard: it holds)
GuardHoldsOn(step, data) ==
    \A f \in DOMAIN step.conditions : f \in DOMAIN data /\ data[f] = step.conditions[f]

\* the running data before step i: the input, updated in step order with the
\* result of every earlier step that was executed and returned success
RECURSIVE MergedThrough(_, _)
MergedThrough(j, i) ==
    IF j = 0 THEN InputDict(ent.input)
    ELSE LET o == ent.kidOutcomes[j]
         IN  IF o.step < i /\ o.outcome = "ok"
             THEN Merge(MergedThrough(j - 1, i), DomainResult(o.domain))
             ELSE MergedThrough(j - 1, i)
RunningDataBefore(i) == MergedThrough(Len(ent.kidOutcomes), i)

\* the steps whose domain was awaited, in the order of the awaits
DispatchedSteps == [j \in 1..Len(ent.kidOutcomes) |-> ent.kidOutcomes[j].step]

\* C19: the steps of a business process are considered in declared order; a
\* step (with a registered target) is dispatched to its domain if and only if
\* its guard holds on the running data of that moment, which is the input
\* merged with the results of the earlier executed steps; a skipped step
\* invokes no domain and adds no result
C19_StepsDispatchedIffGuardHolds ==
    IsProcessRun
        => /\ \A i \in 1..Len(ent.considered) :
                 LET c == ent.considered[i]
                     step == ent.plan[i]
                 IN  /\ c.step = i
                     /\ c.data = RunningDataBefore(i)
                     /\ c.holds <=> GuardHoldsOn(step, RunningDataBefore(i))
                     /\ step.domain \in 1..entCfg.domain_agents
                           => (c.dispatched <=> GuardHoldsOn(step, RunningDataBefore(i)))
                     /\ c.dispatched
                           => \/ \E j \in 1..Len(ent.kidOutcomes) :
                                    /\ ent.kidOutcomes[j].step = i
                                    /\ ent.kidOutcomes[j].domain = step.domain
                              \/ i = Len(ent.considered) /\ ent.pc = "domains"
                     /\ ~c.dispatched
                           => \A j \in 1..Len(ent.kidOutcomes) : ent.kidOutcomes[j].step # i
           /\ \A j \in 1..Len(DispatchedSteps) :
                 /\ DispatchedSteps[j] <= Len(ent.considered)
                 /\ ent.considered[DispatchedSteps[j]].dispatched
                 /\ j > 1 => DispatchedSteps[j - 1] < DispatchedSteps[j]
                 /\ ent.invoked[j] = ent.plan[DispatchedSteps[j]].domain
           /\ Len(ent.invoked) = Len(ent.kidOutcomes)
           /\ Len(ent.results)
                 = Cardinality({j \in 1..Len(ent.kidOutcomes) :
                                   ent.kidOutcomes[j].outcome # "raise"})

\* C19 witness: the process ran to its end; step 2 was dispatched because
\* step 1's result put status = success into the running data, step 3 was
\* skipped because the caller's role is not admin, and step 4 was skipped
C19_Witness ==
    /\ IsProcessRun /\ ent.pc = "done" /\ ent.outcome.success
    /\ Len(ent.considered) = 4
    /\ ent.considered[2].dispatched /\ "status" \notin DOMAIN ent.considered[1].data
    /\ ~ent.considered[3].dispatched /\ ~ent.considered[4].dispatched
    /\ Len(ent.results) = 2

\* a call that runs or ran the standard orchestration
IsStandardRun == ent.calls > 0 /\ ent.mode = "standard"

\* the domains the call's input selects
SelectedDomains == IdentifyRelevantDomains(ent.input)

\* C20: in the standard orchestration the selected domains are invoked one
\* after the other, each exactly once, whatever the earlier ones returned or
\* raised; when the call is over every selected domain has been invoked and
\* the result map has exactly one entry for each of them and no other
C20_EverySelectedDomainInvokedOnce ==
    IsStandardRun
        => /\ IsPrefix(ent.invoked, SelectedDomains)
           /\ \A i \in 1..Len(SelectedDomains), j \in 1..Len(SelectedDomains) :
                 SelectedDomains[i] = SelectedDomains[j] => i = j
           /\ DOMAIN ent.result_map = {ent.invoked[i] : i \in 1..Len(ent.invoked)}
           /\ ent.pc = "domains" => Len(ent.invoked) < Len(SelectedDomains)
           /\ ent.pc = "done"
                 => /\ ent.invoked = SelectedDomains
                    /\ Len(ent.results) = Len(SelectedDomains)
                    /\ ent.outcome.success

\* C20 witness: two domains were selected, the first one raised and the
\* second one was still invoked; the result map has both
C20_Witness ==
    /\ IsStandardRun /\ ent.pc = "done"
    /\ Len(SelectedDomains) = 2 /\ Len(ent.invoked) = 2
    /\ ent.kidOutcomes[1].outcome = "raise"
    /\ ent.result_map[SelectedDomains[1]] = "fail"
    /\ SelectedDomains[2] \in DOMAIN ent.result_map

\* ---- end to end (SpecEndToEnd)

\* the call {user: a, role: admin, process_type: P1} on the enterprise whose
\* process child is the plain atomic echo is over
EchoCallOver ==
    /\ ent.pc = "done"
    /\ ent.input.role = "admin" /\ ent.input.text = "none" /\ ent.input.workflow = "absent"
    /\ subCfg.kind[1] = "nano" /\ nanoCfg[1] = [required |-> {}, faultsFirst |-> 0]

\* the audit entries the current call appended
AuditEntriesOfCall ==
    {i \in 1..Len(ent.audit_trail) : ent.audit_trail[i].request = ent.calls}

\* C21: with the domain mail, the workflow greet = [echo] and the business
\* process P1 = [(mail, greet)], the call {user: a, role: admin,
\* process_type: P1} returns success and adds exactly one audit entry
C21_EndToEndSucceeds ==
    (EchoCallOver /\ entCfg.domain_types[1] = "mail_operations")
        => /\ ent.outcome.success
           /\ Cardinality(AuditEntriesOfCall) = 1

\* the same call when the domain named mail has the type custom
EndToEndSucceedsOnCustomDomain ==
    (EchoCallOver /\ entCfg.domain_types[1] = "custom")
        => /\ ent.outcome.success
           /\ Cardinality(AuditEntriesOfCall) = 1
           /\ nano[1].opCalls = 0

\* ---- composition and registry (SpecRegistry)

\* the last call on the registry was register(node)
RegisterCalled == registry.last.op = "register"

\* C22: register(node) returns false when a node of that name is registered,
\* and then the registry is as before (get(name) is the node registered
\* first); it returns true only when the name was absent, and then get(name)
\* is the new node
C22_RegisterRefusesTakenName ==
    RegisterCalled =>
        IF registry.last.before[registry.last.name] # NoNode
        THEN /\ ~registry.last.ret
             /\ registry.agents = registry.last.before
             /\ RegistryGet(registry, registry.last.name)
                    = registry.last.before[registry.last.name]
        ELSE /\ registry.last.ret
             /\ RegistryGet(registry, registry.last.name) = registry.last.node

\* C22 witness: register was refused for a node whose name another node holds
C22_Witness ==
    /\ RegisterCalled
    /\ ~registry.last.ret
    /\ registry.last.before[registry.last.name] \notin {NoNode, registry.last.node}
    /\ RegistryGet(registry, registry.last.name) # registry.last.node

\* the transition is an unregister call that removed the registered node p
UnregisterRemoved(p) ==
    /\ registry' # registry
    /\ registry'.last.op = "unregister"
    /\ registry'.last.ret
    /\ registry'.last.node = p

\* the names under which children of node p are registered
RegisteredChildren(p) ==
    {nm \in NodeNames :
        /\ registry.agents[nm] # NoNode
        /\ \E i \in 1..Len(tree.child_agents[p]) : tree.child_agents[p][i] = registry.agents[nm]}

\* C23: unregister(name) of a registered parent removes only that node, every
\* registered child of it stays registered, and afterwards the parent query
\* for each such child no longer reports the unregistered node
C23_UnregisterDetachesChildren ==
    [][\A p \in Nodes :
          UnregisterRemoved(p) =>
              /\ registry'.agents = [registry.agents EXCEPT ![NameOf[p]] = NoNode]
              /\ \A nm \in RegisteredChildren(p) :
                    /\ RegistryExists(registry', nm)
                    /\ GetParent(registry', tree', nm) # NameOf[p]]_vars

\* the part of C23 about the registry's entries alone: only the named node
\* leaves, its registered children stay
UnregisterRemovesOnlyThatNode ==
    [][\A p \in Nodes :
          UnregisterRemoved(p) =>
              /\ registry'.agents = [registry.agents EXCEPT ![NameOf[p]] = NoNode]
              /\ \A nm \in RegisteredChildren(p) : RegistryExists(registry', nm)]_vars

\* a parent with a registered child was unregistered, and the parent query
\* for the child still names it
UnregisteredParentStillReported ==
    /\ registry.last.op = "unregister" /\ registry.last.ret
    /\ \E nm \in RegisteredChildren(registry.last.node) :
          GetParent(registry, tree, nm) = registry.last.name

\* the nodes in the child list of node p
ChildrenOf(p) == {tree.child_agents[p][i] : i \in 1..Len(tree.child_agents[p])}

\* the nodes reached from p through at most k child lists
RECURSIVE DescendantsOf(_, _)
DescendantsOf(p, k) ==
    IF k = 0 THEN {}
    ELSE ChildrenOf(p) \cup UNION {DescendantsOf(c, k - 1) : c \in ChildrenOf(p)}

\* C24: after any sequence of child-add and child-remove calls the composition
\* is a tree: every node is in the child list of at most one parent, a node's
\* parent back-reference is P exactly when the node is in P's child list, and
\* no node is its own ancestor
C24_CompositionIsATree ==
    /\ \A n \in Nodes : Cardinality({p \in Nodes : n \in ChildrenOf(p)}) <= 1
    /\ \A n, p \in Nodes : (tree.parent_agent[n] = p) <=> (n \in ChildrenOf(p))
    /\ \A n \in Nodes : n \notin DescendantsOf(n, Cardinality(Nodes))

\* the part of C24 the add methods do keep when each is given a node of the
\* tier it is written for: no node is its own ancestor
NoNodeIsItsOwnAncestor ==
    \A n \in Nodes : n \notin DescendantsOf(n, Cardinality(Nodes))

\* a nano agent in the child lists of two pipelines
NodeWithTwoParents ==
    \E n \in NanoNodes : Cardinality({p \in Nodes : n \in ChildrenOf(p)}) = 2

\* a removed nano agent whose back-reference still names the pipeline
RemovedChildKeepsParent ==
    \E n \in NanoNodes :
        /\ tree.parent_agent[n] # NoNode
        /\ \A p \in Nodes : n \notin ChildrenOf(p)

\* ---- validation and the node's counters (SpecDomain, SpecEnterprise)

\* C25: an execute call that validate_input rejects leaves the node's
\* observable state as it was: no counter, metric or history entry of the
\* domain differs from before the call
C25_RejectedCallChangesNothing ==
    [][(dom'.calls = dom.calls + 1 /\ ~DomValidateInput(dom'.input))
          => /\ dom'.metrics = dom.metrics
             /\ dom'.history = dom.history]_vars

\* a domain call that validate_input rejected is over, and it is counted in
\* total_requests and in failed_requests
RejectedDomainCallCounted ==
    /\ dom.pc = "done" /\ dom.calls = 1
    /\ ~DomValidateInput(dom.input)
    /\ dom.metrics.total_requests = 1 /\ dom.metrics.failed_requests = 1
    /\ dom.history = 0

\* an enterprise call that validate_input rejected is over, and it is counted
\* in total_requests and has an entry in the error log
RejectedEnterpriseCallLogged ==
    /\ ent.pc = "done" /\ ent.calls = 1
    /\ ~EntValidateInput(ent.input)
    /\ ent.total_requests = 1 /\ Len(ent.error_log) = 1
    /\ ent.history = 0

\* ---- callbacks and faults of a nano agent (SpecAtomic)

\* the entries of the trigger log of the method call in progress or last made
Triggers == {atom.triggers[i] : i \in 1..Len(atom.triggers)}

\* an execute call that passed validate_input is over
AtomCallOver == atom.pc = "done" /\ atom.required \subseteq atom.input

\* C26: a trigger of an event calls every callback registered for the event
\* once, in registration order and within the step that triggers it, whether
\* or not an earlier callback raised; and what execute returns is what the
\* wrapped operation alone decides: success and the count when it returned,
\* its exception's kind and message when it raised
C26_CallbacksFireOnceInOrder ==
    /\ \A t \in Triggers : t.fired = t.registered
    /\ AtomCallOver =>
          /\ ~atom.outcome.raised
          /\ atom.outcome = IF atom.operation = Returned
                            THEN [AtomNoOutcome EXCEPT !.success = TRUE, !.hasResult = TRUE,
                                      !.execution_count = atom.execution_count]
                            ELSE AtomErrorOutput(atom.operation)

\* C26 witness: a successful execute whose after_execute trigger called two
\* callbacks, the first of which raised
C26_Witness ==
    /\ AtomCallOver /\ atom.outcome.success
    /\ Len(atom.callbacks["after_execute"]) = 2
    /\ atom.callbacks["after_execute"][1].faults
    /\ \E t \in Triggers : t.event = "after_execute" /\ Len(t.fired) = 2
    /\ atom.callback_errors > 0

\* the step in which an execute ends after its wrapped operation raised
OperationFaulted ==
    /\ atom.pc = "running" /\ atom'.pc = "done"
    /\ atom'.operation \in Faults

\* C28: an exception of the wrapped operation is caught by execute and
\* returned as a non-success outcome with the exception's kind and message;
\* on_error is triggered and calls its callbacks, after_execute is not
\* triggered, the history and the execution count stay as they were, and
\* nothing is raised to the caller
C28_OperationFaultIsReturned ==
    [][OperationFaulted =>
          /\ ~atom'.outcome.success /\ ~atom'.outcome.raised
          /\ atom'.outcome.error_type = atom'.operation.kind
          /\ atom'.outcome.error = atom'.operation.message
          /\ atom'.triggers = Append(atom.triggers,
                 [event |-> "on_error", call |-> atom.calls,
                  registered |-> CallbackIds(atom.callbacks["on_error"]),
                  fired |-> CallbackIds(atom.callbacks["on_error"])])
          /\ \A i \in 1..Len(atom'.triggers) : atom'.triggers[i].event # "after_execute"
          /\ atom'.history = atom.history
          /\ atom'.execution_count = atom.execution_count]_vars

\* C28 witness: the second execute ended with the operation's KeyError after
\* the first had succeeded, and on_error has a callback
C28_Witness ==
    /\ AtomCallOver /\ atom.calls = 2
    /\ atom.operation = [kind |-> "KeyError", message |-> "m2"]
    /\ atom.outcome.error_type = "KeyError"
    /\ atom.history = 1
    /\ atom.callbacks["on_error"] # <<>>

\* ---- history logs (SpecProcess and the other tiers)

\* C27: an execute call of the process that returns success appends exactly
\* one entry to the process's own history and a call that does not succeed
\* appends none, a call that succeeds through error recovery included: in
\* every step the history grows by one if the step ends a call with success
\* and stays as it was otherwise
C27_HistoryCountsSuccessfulCalls ==
    [][sub'.history = sub.history +
          (IF sub'.pc = "done" /\ (sub.pc # "done" \/ sub'.calls # sub.calls)
                /\ sub'.outcome.success
           THEN 1 ELSE 0)]_vars

\* the same for process calls that do not end in the error-handler stage
ProcessHistoryCountsUnrecoveredCalls ==
    [][~sub'.outcome.recovered =>
          sub'.history = sub.history +
              (IF sub'.pc = "done" /\ (sub.pc # "done" \/ sub'.calls # sub.calls)
                    /\ sub'.outcome.success
               THEN 1 ELSE 0)]_vars

\* a process call is over, recovered by an error handler into a success, and
\* the process's history is empty
RecoveredCallLeftNoHistory ==
    /\ sub.pc = "done" /\ sub.calls = 1
    /\ sub.outcome.success /\ sub.outcome.recovered
    /\ sub.history = 0

\* the same statement for the pipeline, the domain, the enterprise and the
\* nano agent
PipelineHistoryCountsSuccessfulCalls ==
    [][mikro'.history = mikro.history +
          (IF mikro'.pc = "done" /\ (mikro.pc # "done" \/ mikro'.calls # mikro.calls)
                /\ mikro'.outcome.success
           THEN 1 ELSE 0)]_vars
DomainHistoryCountsSuccessfulCalls ==
    [][dom'.history = dom.history +
          (IF dom'.pc = "done" /\ (dom.pc # "done" \/ dom'.calls # dom.calls)
                /\ dom'.outcome.success
           THEN 1 ELSE 0)]_vars
EnterpriseHistoryCountsSuccessfulCalls ==
    [][ent'.history = ent.history +
          (IF ent'.pc = "done" /\ (ent.pc # "done" \/ ent'.calls # ent.calls)
                /\ ent'.outcome.success
           THEN 1 ELSE 0)]_vars
AtomHistoryCountsSuccessfulCalls ==
    [][atom'.history = atom.history +
          (IF atom'.pc = "done" /\ (atom.pc # "done" \/ atom'.calls # atom.calls)
                /\ atom'.outcome.success
           THEN 1 ELSE 0)]_vars

\* ---- retry waits (SpecBackoff)

\* the wait the claim gives for the k-th failed attempt
ClaimedWait(k) ==
    IF subCfg.retry_config.exponential_backoff
    THEN subCfg.retry_config.retry_delay * (2 ^ (k - 1))
    ELSE subCfg.retry_config.retry_delay

\* the sum of the claimed waits after the failed attempts 1..k
RECURSIVE ClaimedWaitsThrough(_)
ClaimedWaitsThrough(k) == IF k = 0 THEN 0 ELSE ClaimedWaitsThrough(k - 1) + ClaimedWait(k)

\* C29: in the retry loop the wait that follows the k-th failed attempt is
\* retry_delay * 2^(k-1) with exponential backoff and retry_delay without, and
\* no wait follows the final failed attempt: a wait is only ever begun after
\* an attempt that is not the last, and when the retries are used up the
\* waits of the loop are those after the attempts 1..max_retries
C29_RetryWaits ==
    /\ sub.pc = "sleep"
          => /\ sub.retries = sub.attempts
             /\ sub.attempts <= subCfg.retry_config.max_retries
             /\ sub.delay = ClaimedWait(sub.attempts)
    /\ (sub.pc = "done" /\ sub.cause = "retries_exhausted")
          => /\ sub.attempts = subCfg.retry_config.max_retries + 1
             /\ sub.lastWait = ClaimedWaitsThrough(subCfg.retry_config.max_retries)

\* C29 witness: with retry_delay 3 and exponential backoff the process waits
\* 12 after the third failed attempt
C29_Witness ==
    /\ sub.pc = "sleep" /\ sub.attempts = 3
    /\ subCfg.retry_config.retry_delay = 3 /\ subCfg.retry_config.exponential_backoff
    /\ sub.delay = 12

\* the retries of a child were used up after waits of 2, 2 and 2
FixedWaitsWitness ==
    /\ sub.pc = "done" /\ sub.cause = "retries_exhausted"
    /\ subCfg.retry_config.retry_delay = 2 /\ ~subCfg.retry_config.exponential_backoff
    /\ subCfg.retry_config.max_retries = 3
    /\ sub.lastWait = 6

\* ---- success of a parallel pipeline (SpecPipeline)

\* a parallel execute that passed validation is over
ParallelCallOver == IsParallelRun /\ MikroRan /\ mikro.pc = "done"

\* the policies a caller could ask for, and what each says on the per-child
\* outcomes of the finished call
SuccessPolicies == {"all_must_succeed", "any_succeeds"}
PolicyVerdict(policy) ==
    IF policy = "all_must_succeed"
    THEN \A i \in 1..Len(ReportedOutcomes) : ReportedOutcomes[i].success
    ELSE \E i \in 1..Len(ReportedOutcomes) : ReportedOutcomes[i].success

\* C30: the success of a parallel pipeline's outcome is what the caller's
\* policy over the per-child outcomes says, all-must-succeed or any-succeeds,
\* whichever the caller asks for, and not a rule built into execute
C30_ParallelSuccessFollowsCallerPolicy ==
    ParallelCallOver =>
        \A policy \in SuccessPolicies : mikro.outcome.success = PolicyVerdict(policy)

\* the rule built into execute: a parallel call succeeds exactly when its last
\* child did, whatever the other children returned
ParallelSuccessIsLastChilds ==
    ParallelCallOver =>
        mikro.outcome.success = ReportedOutcomes[Len(ReportedOutcomes)].success

\* a parallel call succeeded although a child failed
ParallelSucceededWithFailedChild ==
    /\ ParallelCallOver /\ mikro.outcome.success
    /\ \E i \in 1..Len(ReportedOutcomes) : ~ReportedOutcomes[i].success

\* a parallel call failed although a child succeeded
ParallelFailedWithSuccessfulChild ==
    /\ ParallelCallOver /\ ~mikro.outcome.success
    /\ \E i \in 1..Len(ReportedOutcomes) : ReportedOutcomes[i].success

\* ------------------------------------- two execute calls on one process
\* SubAgent.execute is a coroutine: a second call on the same instance may run
\* while the first is suspended at an await (the child's execute, or the
\* sleep before a retry).  conc.frame[i] is call i: its coroutine position
\* and locals, and the process_context dict it works on; conc.history is the
\* instance's own history.
notConc == <<mikroCfg, mikro, invLog, subCfg, sub, domCfg, dom, domKid, entCfg, ent, entDom,
             tree, registry, atom, limiter>>

\* the two calls, each made once
ConcCalls == {1, 2}

\* the process_context dict call i reads and writes: execute builds it as a
\* local of the call, so it is the call's own
ContextOnInstance(i) == 1
ContextOf(i) == i

\* a call's frame before the call is made; k and data are the operation's
\* invocation number and the input of the child execute being awaited;
\* given, produced and sent observe the call: the input it was made with, the
\* results its own child calls returned, and the inputs it passed to them
ConcIdle == [pc |-> "idle", calls |-> 0, input |-> [keys |-> {}, workflow |-> "default"],
             stage |-> "none", idx |-> 1, cur |-> 0, retries |-> 0, delay |-> 0,
             attempts |-> 0, waited |-> 0, lastWait |-> 0, handled |-> "none", cause |-> "none",
             wfResults |-> <<>>, ctxResults |-> <<>>, current_step |-> 0,
             dispatched |-> <<>>, evaluated |-> <<>>,
             decisions |-> <<>>, outcome |-> SubNoOutcome, history |-> 0,
             k |-> 0, data |-> {},
             given |-> [keys |-> {}, workflow |-> "default"], produced |-> <<>>, sent |-> <<>>]

\* call i as its code sees it: its own locals, and the keys of its context dict
ConcView(i) ==
    LET ctx == conc.frame[ContextOf(i)]
    IN  [conc.frame[i] EXCEPT !.input = ctx.input, !.ctxResults = ctx.ctxResults,
                              !.current_step = ctx.current_step, !.decisions = ctx.decisions,
                              !.history = conc.history]

\* the frames after call i moved to s: its locals, and its context dict
ConcStore(i, s) ==
    [j \in ConcCalls |->
        LET base == IF j = i THEN s ELSE conc.frame[j]
        IN  IF j = ContextOf(i)
            THEN [base EXCEPT !.input = s.input, !.ctxResults = s.ctxResults,
                              !.current_step = s.current_step, !.decisions = s.decisions]
            ELSE base]

\* call i moved to s: the frames, and the history entry its success branch adds
ConcMove(i, s) ==
    conc' = [frame |-> ConcStore(i, s), history |-> s.history]

\* execute of call i up to its first await: validation, a new process_context,
\* and the choice between workflow, conditional flows and the fallback
ConcCall(i, inp) ==
    /\ conc.frame[i].pc = "idle"
    /\ LET fresh == [ConcIdle EXCEPT !.calls = conc.frame[i].calls + 1, !.input = inp,
                                     !.given = inp, !.history = conc.history]
       IN  IF ~SubValidateInput(inp)
           THEN conc' = [conc EXCEPT !.frame[i] =
                            [ConcIdle EXCEPT !.calls = conc.frame[i].calls + 1, !.given = inp,
                                             !.pc = "done",
                                             !.outcome = [SubNoOutcome EXCEPT !.raised = TRUE,
                                                                     !.error_type = "ValueError"]]]
           ELSE IF inp.workflow \in DOMAIN subCfg.workflows
           THEN ConcMove(i, SubAdvance([fresh EXCEPT !.stage = "workflow"]))
           ELSE ConcMove(i, SubAdvance([fresh EXCEPT !.stage = "flows"]))
    /\ UNCHANGED <<nanoCfg, nano, kidHistory, notConc>>

\* _execute_agent of call i, one pass of the while loop up to the await of
\* the child's operation: the input is prepared from the call's context and
\* the child's execute is entered.  A child that rejects the input raises at
\* once, which counts a retry and either sleeps or re-raises.
ConcStart(i) ==
    LET s == ConcView(i)
        c == s.cur
        data == PrepareAgentInput(s)
        s1 == [s EXCEPT !.attempts = @ + 1,
                        !.sent = Append(@, [agent |-> c, data |-> data,
                                            after |-> Len(conc.frame[i].produced)])]
    IN  /\ s.pc = "attempt"
        /\ RetryAllowed(s.retries)
        /\ IF NanoValidateInput(c, data)
           THEN /\ nano' = [nano EXCEPT ![c] = NanoStart(@)]
                /\ ConcMove(i, [s1 EXCEPT !.pc = "await", !.k = nano[c].opCalls + 1,
                                          !.data = data])
           ELSE /\ nano' = nano
                /\ IF RetryAllowed(s.retries + 1)
                   THEN ConcMove(i, [s1 EXCEPT !.pc = "sleep", !.retries = @ + 1,
                                               !.delay = RetryDelay(s.retries + 1)])
                   ELSE ConcMove(i, SubFail([s1 EXCEPT !.retries = @ + 1], "ValueError",
                                            "retries_exhausted"))
        /\ UNCHANGED <<nanoCfg, kidHistory, notConc>>

\* the child's operation awaited by call i is over: the child's execute
\* returns its result dict, _execute_agent stores it in the call's context
\* and its caller goes on
ConcFinish(i) ==
    LET s == ConcView(i)
        c == s.cur
        out == KidExecuteOutcome(c, s.data, s.k - 1)
    IN  /\ s.pc = "await"
        /\ nano' = [nano EXCEPT ![c] = NanoFinish(c, @, s.k)]
        /\ kidHistory' = IF subCfg.kind[c] = "mikro" /\ out.success
                         THEN [kidHistory EXCEPT ![c] = @ + 1] ELSE kidHistory
        /\ ConcMove(i, SubAfterResult([s EXCEPT !.ctxResults = Append(@, out),
                                                !.current_step = @ + 1,
                                                !.produced = Append(@, out)], out))
        /\ UNCHANGED <<nanoCfg, notConc>>

\* await asyncio.sleep(delay) of call i is over: back to the top of the loop
ConcSleep(i) ==
    LET s == ConcView(i)
    IN  /\ s.pc = "sleep"
        /\ ConcMove(i, [s EXCEPT !.pc = "attempt", !.waited = @ + s.delay,
                                 !.lastWait = @ + s.delay])
        /\ UNCHANGED <<nanoCfg, nano, kidHistory, notConc>>

\* a process with the workflow w = [1, 2], the flows
\* (input has field 0 ? child 1 : child 2) and (no result yet ? child 2 : None),
\* default decision_logic, no error handler and one retry; child 1 is a nano
\* agent that accepts every input, child 2 varies
ConcInit ==
    /\ nanoCfg \in [NanoIds -> NanoConfigs]
    /\ \A n \in NanoIds \ {2} : nanoCfg[n].required = {}
    /\ \A n \in NanoIds \ {1, 2} : nanoCfg[n].faultsFirst = 0
    /\ nano = [n \in NanoIds |-> NanoInit]
    /\ \E kind2 \in {"nano", "mikro"}, mr \in {1}, so \in {TRUE} :
          subCfg = [kind |-> [c \in SubKids |-> IF c = 2 THEN kind2 ELSE "nano"],
                    workflows |-> [w \in {"w"} |-> <<1, 2>>],
                    conditional_flows |-> <<[cond |-> "hasField", true_path |-> 1, false_path |-> 2],
                                            [cond |-> "noResults", true_path |-> 2, false_path |-> 0]>>,
                    stop_on_error |-> so,
                    required_fields |-> {},
                    error_handlers |-> NoHandlers,
                    retry_config |-> [max_retries |-> mr, retry_delay |-> DefaultRetryDelay,
                                      exponential_backoff |-> TRUE]]
    /\ sub = [pc |-> "idle"]
    /\ kidHistory = [c \in SubKids |-> 0]
    /\ invLog = <<>>
    /\ conc = [frame |-> [i \in ConcCalls |-> ConcIdle], history |-> 0]
    /\ PipeAtRest /\ DomAtRest /\ EntAtRest /\ TreeAtRest /\ AtomAtRest /\ LimiterAtRest

ConcNext ==
    \/ \E i \in ConcCalls, inp \in SubInputs : ConcCall(i, inp)
    \/ \E i \in ConcCalls : ConcStart(i)
    \/ \E i \in ConcCalls : ConcFinish(i)
    \/ \E i \in ConcCalls : ConcSleep(i)

SpecConcurrent == ConcInit /\ [][ConcNext]_vars

\* ---- C31
\* the agents the conditional flows of call i selected, in order: what the
\* call appended to its decisions
RECURSIVE SelectedBy(_)
SelectedBy(evaluated) ==
    IF evaluated = <<>> THEN <<>>
    ELSE IF Head(evaluated).selected = 0 THEN SelectedBy(Tail(evaluated))
    ELSE <<Head(evaluated).selected>> \o SelectedBy(Tail(evaluated))

\* the input call i's own results give for a child entered after `after` of
\* them were stored
ThreadedFromOwn(i, after) ==
    LET f == conc.frame[i]
    IN  IF after > 0 /\ f.produced[after].hasResult
        THEN f.given.keys \cup f.produced[after].result
        ELSE f.given.keys

\* C31: of two execute calls on one process that interleave at their awaits,
\* each works on a context of its own: at every moment the results list of a
\* call's context holds exactly the results its own child calls returned, in
\* order, its step counter counts them, its decisions are the ones its own
\* conditional flows made, and every input it passed to a child was threaded
\* from its own input and its own latest result.
C31_CallsOwnTheirContext ==
    \A i \in ConcCalls :
        conc.frame[i].calls > 0 =>
            /\ ConcView(i).ctxResults = conc.frame[i].produced
            /\ ConcView(i).current_step = Len(conc.frame[i].produced)
            /\ ConcView(i).decisions = SelectedBy(conc.frame[i].evaluated)
            /\ ConcView(i).input = conc.frame[i].given
            /\ \A k \in 1..Len(conc.frame[i].sent) :
                  conc.frame[i].sent[k].data = ThreadedFromOwn(i, conc.frame[i].sent[k].after)

\* C31 witness: call 1 is suspended with a child result stored that carries a
\* 'result', while call 2, made with another input, awaits its first child on
\* an input that holds nothing of call 1's result
C31_Witness ==
    /\ conc.frame[1].pc \in {"await", "sleep"}
    /\ conc.frame[1].produced # <<>>
    /\ conc.frame[1].produced[1].hasResult
    /\ conc.frame[2].pc = "await"
    /\ conc.frame[2].produced = <<>>
    /\ conc.frame[2].given # conc.frame[1].given
    /\ conc.frame[2].data \cap conc.frame[1].produced[1].result = {}

\* ---------------------------------------------------------- RateLimiter
\* core/ratelimit.py: a sliding window per key, kept in a Redis sorted set
\* whose members are str(now) and whose scores are now.  Time is counted in
\* ticks of 1/TicksPerSecond second: a tick is the resolution of time.time(),
\* so two requests that read the clock within one tick read the same value,
\* and a sorted set holds one member per distinct value: the set of its scores.
notLimiter == <<nanoCfg, nano, mikroCfg, mikro, invLog, subCfg, sub, kidHistory,
                domCfg, dom, domKid, entCfg, ent, entDom, tree, registry, atom, conc>>

TicksPerSecond == 2
MaxClock == 5          \* the clock runs from tick 0 to tick MaxClock
MaxRequests == 3       \* requests sent in all

\* the rate-limit keys (one client of one endpoint each; k1 names the key
\* of the first request sent) and the requests that can be inside is_allowed
\* at the same time
LimitKeys == {"k1", "k2"}
LimitSlots == {1, 2}

NoRequest == [pc |-> "idle", key |-> "k1", now |-> 0, alone |-> FALSE, covered |-> FALSE]
NoDecision == [key |-> "none", allowed |-> FALSE, retry_after |-> 0, covered |-> FALSE]
NoPromise == [live |-> FALSE, until |-> 0]

\* int(): truncation toward zero of num/den
IntTrunc(num, den) == IF num >= 0 THEN num \div den ELSE -((-num) \div den)

Max2(a, b) == IF a >= b THEN a ELSE b
MinOf(S) == CHOOSE x \in S : \A y \in S : x <= y

\* config.window_seconds in ticks
WindowTicks == limiter.config.window_seconds * TicksPerSecond

\* pipe.zremrangebyscore(key, 0, window_start): the scores above window_start stay
ZRemRangeByScore(zset, window_start) == {s \in zset : s > window_start}

\* pipe.zadd(key, {str(now): now}): a member that is already there is kept once
ZAdd(zset, now) == zset \cup {now}

\* the requests that can be inside is_allowed at one time take the slots
\* in order; the other requests for the key of slot r inside is_allowed
OthersInFlight(r, key) ==
    {q \in LimitSlots \ {r} : limiter.req[q].pc # "idle" /\ limiter.req[q].key = key}

\* (Observer: the allowed requests that can still share a window with a
\* request to come, which reads the clock no earlier than the earliest request
\* inside is_allowed and no earlier than now; the older ones are forgotten.)
EarliestToCome(lim) ==
    MinOf({lim.clock} \cup {lim.req[r].now : r \in {q \in LimitSlots : lim.req[q].pc # "idle"}})
Forget(lim) ==
    [lim EXCEPT !.allowed =
        [k \in LimitKeys |-> [t \in 0..MaxClock |->
            IF t + lim.config.window_seconds * TicksPerSecond <= EarliestToCome(lim)
            THEN 0 ELSE lim.allowed[k][t]]]]

\* is_allowed, line 43: a request for key reads the clock.  (Observers: a
\* request is alone while no other request for its key is inside is_allowed
\* with it; it is covered when it is the first request of its key since a
\* rejection whose retry_after has run out, and is uncovered by company.)
LimiterRead(r, key) ==
    /\ limiter.pc = "run"
    /\ limiter.req[r].pc = "idle"
    /\ \A q \in LimitSlots : q < r => limiter.req[q].pc # "idle"
    /\ limiter.sent < MaxRequests
    /\ key = "k2" => limiter.sent > 0
    /\ LET company == OthersInFlight(r, key) # {}
           p == limiter.promise[key]
       IN  limiter' = Forget([limiter EXCEPT
              !.sent = @ + 1,
              !.req = [q \in LimitSlots |->
                         IF q = r
                         THEN [pc |-> "read", key |-> key, now |-> limiter.clock,
                               alone |-> ~company,
                               covered |-> p.live /\ limiter.clock >= p.until /\ ~company]
                         ELSE IF q \in OthersInFlight(r, key)
                         THEN [limiter.req[q] EXCEPT !.alone = FALSE, !.covered = FALSE]
                         ELSE limiter.req[q]],
              !.promise[key] = NoPromise])
    /\ UNCHANGED notLimiter

\* is_allowed, lines 44-64 and 75: the pipeline runs as one transaction
\* (expired entries removed, the rest counted, this request added, the key's
\* expiry set).  With the count below config.requests the request is allowed
\* with retry_after 0; else it goes on to ask for the key's oldest entry.
LimiterPipeline(r) ==
    LET q == limiter.req[r]
        kept == ZRemRangeByScore(limiter.zset[q.key], q.now - WindowTicks)
        current_count == Cardinality(kept)
        stored == [limiter EXCEPT
                      !.zset[q.key] = ZAdd(kept, q.now),
                      !.expires[q.key] = limiter.clock
                                         + (limiter.config.window_seconds + 1) * TicksPerSecond]
    IN  /\ limiter.pc = "run"
        /\ q.pc = "read"
        /\ IF current_count >= limiter.config.requests
           THEN limiter' = [stored EXCEPT !.req[r].pc = "over"]
           ELSE limiter' = [stored EXCEPT
                               !.req[r] = NoRequest,
                               !.allowed[q.key][q.now] = @ + 1,
                               !.last = [key |-> q.key, allowed |-> TRUE,
                                         retry_after |-> 0, covered |-> q.covered]]
        /\ UNCHANGED notLimiter

\* is_allowed, lines 65-73: retry_after from the oldest entry of the key, read
\* by a command of its own after the pipeline
RetryAfter(zset, now) ==
    IF zset # {}
    THEN Max2(IntTrunc(MinOf(zset) + WindowTicks - now, TicksPerSecond) + 1, 1)
    ELSE limiter.config.window_seconds

\* the rejection is returned.  (Observer: the key is promised an allowed
\* request retry_after seconds after now when the rejected request was alone.)
LimiterReject(r) ==
    LET q == limiter.req[r]
        retry_after == RetryAfter(limiter.zset[q.key], q.now)
    IN  /\ limiter.pc = "run"
        /\ q.pc = "over"
        /\ limiter' = Forget([limiter EXCEPT
              !.req[r] = NoRequest,
              !.last = [key |-> q.key, allowed |-> FALSE,
                        retry_after |-> retry_after, covered |-> q.covered],
              !.promise[q.key] = IF q.alone
                                 THEN [live |-> TRUE, until |-> q.now + retry_after * TicksPerSecond]
                                 ELSE NoPromise])
        /\ UNCHANGED notLimiter

\* a tick passes; Redis deletes the keys whose expiry has come
LimiterTick ==
    /\ limiter.pc = "run"
    /\ limiter.clock < MaxClock
    /\ limiter' = Forget([limiter EXCEPT
          !.clock = @ + 1,
          !.zset = [k \in LimitKeys |->
                      IF limiter.expires[k] # 0 /\ limiter.expires[k] <= limiter.clock + 1
                      THEN {} ELSE limiter.zset[k]],
          !.expires = [k \in LimitKeys |->
                      IF limiter.expires[k] <= limiter.clock + 1 THEN 0 ELSE limiter.expires[k]]])
    /\ UNCHANGED notLimiter

\* RateLimitConfig(requests, window_seconds): one request per two seconds,
\* two per second
RateLimitConfigs == {[requests |-> 1, window_seconds |-> 2],
                     [requests |-> 2, window_seconds |-> 1]}

\* an empty Redis, nothing sent, any of the configurations; allowed[k][t]
\* counts the requests for k that read the clock at t and were allowed
LimiterInit ==
    /\ \E config \in RateLimitConfigs :
          limiter = [pc |-> "run", config |-> config, clock |-> 0, sent |-> 0,
                     zset |-> [k \in LimitKeys |-> {}],
                     expires |-> [k \in LimitKeys |-> 0],
                     req |-> [r \in LimitSlots |-> NoRequest],
                     allowed |-> [k \in LimitKeys |-> [t \in 0..MaxClock |-> 0]],
                     promise |-> [k \in LimitKeys |-> NoPromise],
                     last |-> NoDecision]
    /\ nanoCfg = [n \in NanoIds |-> [required |-> {}, faultsFirst |-> 0]]
    /\ nano = [n \in NanoIds |-> NanoInit]
    /\ invLog = <<>>
    /\ PipeAtRest /\ SubAtRest /\ DomAtRest /\ EntAtRest /\ TreeAtRest /\ AtomAtRest /\ ConcAtRest

LimiterNext ==
    \/ \E r \in LimitSlots, key \in LimitKeys : LimiterRead(r, key)
    \/ \E r \in LimitSlots : LimiterPipeline(r)
    \/ \E r \in LimitSlots : LimiterReject(r)
    \/ LimiterTick

SpecRateLimit == LimiterInit /\ [][LimiterNext]_vars

\* ---- C32
\* the requests for key that read the clock in the window (t - window, t]
\* and were allowed
RECURSIVE AllowedFrom(_, _, _)
AllowedFrom(key, from, t) ==
    IF from > t THEN 0
    ELSE (IF from >= 0 THEN limiter.allowed[key][from] ELSE 0) + AllowedFrom(key, from + 1, t)
AllowedInWindow(key, t) == AllowedFrom(key, t - WindowTicks + 1, t)

\* C32: for every key and every window of window_seconds, the number of
\* requests is_allowed allowed in the window never exceeds config.requests,
\* however the concurrent requests interleave.
C32_AllowedWithinLimit ==
    \A key \in LimitKeys, t \in 0..MaxClock :
        AllowedInWindow(key, t) <= limiter.config.requests

\* C32, second clause: a request changes the sorted set of its own key only,
\* so the decision for another key is what it would have been without it
KeysAreIndependent ==
    [][\A key \in LimitKeys :
          limiter'.zset[key] # limiter.zset[key] =>
              \/ limiter'.clock # limiter.clock
              \/ \E r \in LimitSlots : /\ limiter.req[r].pc = "read"
                                       /\ limiter.req[r].key = key
                                       /\ limiter'.req[r].pc # "read"]_vars

\* ---- C39
\* retry_after is 0 on acceptance and at least 1 on rejection
RetryAfterSign ==
    limiter.last.key # "none" =>
        IF limiter.last.allowed THEN limiter.last.retry_after = 0
        ELSE limiter.last.retry_after >= 1

\* C39: when is_allowed rejects a request of a key with retry_after = r (at
\* least 1 on rejection, 0 on acceptance) and the key sends nothing during the
\* next r seconds, the first request the key sends at or after that time is
\* allowed.
C39_RetryAfterIsHonoured ==
    /\ RetryAfterSign
    /\ limiter.last.covered => limiter.last.allowed

\* ---- C33
\* the pipeline's execute was refused by its validate_input
RejectedAtValidation ==
    /\ mikro.pc = "done"
    /\ mikro.outcome.raised
    /\ mikro.outcome.error_type = "ValueError"

\* what the first child's validate_input says of the call's input
FirstChildAccepts ==
    IF mikroCfg.nano_agents = <<>> THEN FALSE
    ELSE nanoCfg[mikroCfg.nano_agents[1]].required \subseteq mikro.input

\* C33: a sequential pipeline's validate_input gives what its first child's
\* validate_input gives on the same input, whatever the later children would
\* say, and a pipeline without children is invalid: a call is refused exactly
\* when the pipeline is empty or its first child rejects the input.
C33_SequentialValidateIsFirstChilds ==
    (mikroCfg.pipeline_mode = "sequential" /\ mikro.calls > 0)
        => (RejectedAtValidation <=> ~FirstChildAccepts)

\* C33 witness: a sequential pipeline passed validation on an input that a
\* later child's validate_input rejects
C33_Witness ==
    /\ mikroCfg.pipeline_mode = "sequential"
    /\ mikro.calls > 0
    /\ ~RejectedAtValidation
    /\ \E i \in 2..Len(mikroCfg.nano_agents) :
          ~(nanoCfg[mikroCfg.nano_agents[i]].required \subseteq mikro.input)

\* C33, the empty pipeline: a pipeline without children refused a call
EmptyPipelineRefused ==
    /\ mikroCfg.pipeline_mode = "sequential"
    /\ mikroCfg.nano_agents = <<>>
    /\ RejectedAtValidation

\* ---- C34
\* the processed results of the same children listed with the children at
\* positions i and j exchanged: the children run on the same input side by
\* side, so each returns what it returned
Exchanged(results, i, j) ==
    [p \in 1..Len(results) |-> IF p = i THEN results[j] ELSE IF p = j THEN results[i]
                                ELSE results[p]]

\* the success flag execute builds from a processed list of a parallel run
ParallelSuccessOn(results) ==
    IF results[Len(results)].hasResult THEN MikroOutput(results).success
    ELSE MikroErrorOutput(results).success

\* the positions of the failed children of a finished parallel call
FailedPositions == {i \in 1..Len(mikro.results) : ~mikro.results[i].success}

\* C34: when exactly one child of a parallel pipeline fails, the overall
\* success flag is the same whichever position of the child list the failing
\* child holds.
C34_ParallelSuccessIgnoresOrder ==
    (ParallelCallOver /\ Cardinality(FailedPositions) = 1) =>
        \A i \in FailedPositions, j \in 1..Len(mikro.results) :
            ParallelSuccessOn(Exchanged(mikro.results, i, j)) = mikro.outcome.success

\* the success flag of the finished call is the one execute's rule gives
ParallelSuccessAsModelled ==
    ParallelCallOver => mikro.outcome.success = ParallelSuccessOn(mikro.results)

\* ---- C35
\* this step ends a domain execute that passed validation and the policy check
PassedCallEnds ==
    /\ dom'.pc = "done"
    /\ dom.pc = "kids" \/ dom'.calls # dom.calls
    /\ dom'.policy_checked /\ dom'.policy_allowed

\* no child of the call that ends succeeded: each one selected returned
\* non-success or raised, or none was selected
NoChildSucceeded == \A i \in 1..Len(dom'.results) : dom'.results[i] = "fail"

\* C35: a domain execute that passes validation and the policy check always
\* returns success = true and adds one to successful_requests, also when every
\* selected child failed or raised and when no child is registered; the
\* children's failure shows only as status 'failed' of the aggregated result.
C35_PassedCallSucceeds ==
    [][PassedCallEnds =>
          /\ dom'.outcome.success
          /\ dom'.metrics.successful_requests = dom.metrics.successful_requests + 1
          /\ dom'.metrics.failed_requests = dom.metrics.failed_requests
          /\ NoChildSucceeded <=> dom'.outcome.status = "failed"]_vars

\* the part about failing children: a passed call none of whose children
\* succeeded returns success = true with status 'failed' and is counted successful
FailedChildrenLeaveSuccess ==
    [][(PassedCallEnds /\ NoChildSucceeded) =>
          /\ dom'.outcome.success
          /\ dom'.outcome.status = "failed"
          /\ dom'.metrics.successful_requests = dom.metrics.successful_requests + 1]_vars

\* a passed call ended non-success: the aggregation raised
PassedCallFailed ==
    /\ dom.pc = "done" /\ dom.policy_checked /\ dom.policy_allowed
    /\ ~dom.outcome.success
    /\ dom.outcome.error_type = "AttributeError"

\* ---- C36
\* the process run was broken off: its last step named an unregistered domain
\* (its guard held and no domain was awaited), or the domain it awaited raised
ProcessBrokenOff ==
    \/ /\ ent.considered # <<>>
       /\ ent.considered[Len(ent.considered)].holds
       /\ ~ent.considered[Len(ent.considered)].dispatched
    \/ /\ ent.kidOutcomes # <<>>
       /\ ent.kidOutcomes[Len(ent.kidOutcomes)].outcome = "raise"

\* C36: in a business process a step whose domain returns a non-success
\* outcome does not stop the process: the steps after it are still considered
\* in order, its output is not merged into the running data, and the
\* enterprise outcome is success all the same; the outcome is non-success only
\* when a step names an unregistered domain or a domain call raises, and then
\* the earlier steps have had their effect: their domains were invoked and
\* their successful results merged.
C36_FailedStepDoesNotStopProcess ==
    IsProcessRun =>
        /\ \A i \in 1..Len(ent.considered) : ent.considered[i].step = i
        /\ \A j \in 1..Len(ent.kidOutcomes) :
              (ent.kidOutcomes[j].outcome = "fail" /\ ent.kidOutcomes[j].step < Len(ent.plan))
                  => Len(ent.considered) > ent.kidOutcomes[j].step
        /\ ent.current_data = RunningDataBefore(Len(ent.plan) + 1)
        /\ ent.pc = "done" =>
              /\ ent.outcome.success <=> ~ProcessBrokenOff
              /\ ent.outcome.success => Len(ent.considered) = Len(ent.plan)
              /\ ent.invoked = [j \in 1..Len(ent.kidOutcomes) |-> ent.kidOutcomes[j].domain]
              /\ \A i \in 1..Len(ent.considered) :
                    ent.considered[i].dispatched
                        => \E j \in 1..Len(ent.kidOutcomes) : ent.kidOutcomes[j].step = i

\* C36 witness: a process run ended in success although the domain of its
\* first step returned non-success; the step after it was considered on the
\* bare input, and a later step was dispatched and returned success
C36_Witness ==
    /\ IsProcessRun /\ ent.pc = "done" /\ ent.outcome.success
    /\ Len(ent.kidOutcomes) >= 2
    /\ ent.kidOutcomes[1].outcome = "fail"
    /\ ent.kidOutcomes[1].step = 1
    /\ ent.considered[2].data = InputDict(ent.input)
    /\ ent.kidOutcomes[2].outcome = "ok"
    /\ ent.kidOutcomes[2].step > 1

\* a process run ended non-success on a raising domain after an earlier step
\* had been executed and merged
ProcessBrokenAfterMergedStep ==
    /\ IsProcessRun /\ ent.pc = "done" /\ ~ent.outcome.success
    /\ Len(ent.kidOutcomes) >= 2
    /\ ent.kidOutcomes[1].outcome = "ok"
    /\ ent.kidOutcomes[Len(ent.kidOutcomes)].outcome = "raise"
    /\ "status" \in DOMAIN ent.current_data

\* a process run ended non-success on a step naming an unregistered domain
ProcessBrokenOnUnregisteredDomain ==
    /\ IsProcessRun /\ ent.pc = "done" /\ ~ent.outcome.success
    /\ ent.kidOutcomes # <<>>
    /\ ent.kidOutcomes[Len(ent.kidOutcomes)].outcome # "raise"

\* ---- C37
\* the audit entries with a status
AuditEntries(status) ==
    {i \in 1..Len(ent.audit_trail) : ent.audit_trail[i].status = status}

\* no enterprise execute is under way
NoEnterpriseCallInFlight == ent.pc \in {"idle", "done"}

\* C37: after any sequence of completed enterprise execute calls,
\* total_requests is the number of audit entries with status success plus the
\* length of the error log, the audit entries with status failed are at most
\* as many as the error log's entries, and so are the entries of the
\* compliance-violations ledger.
C37_CountersAgree ==
    NoEnterpriseCallInFlight =>
        /\ ent.total_requests = Cardinality(AuditEntries("success")) + Len(ent.error_log)
        /\ Cardinality(AuditEntries("failed")) <= Len(ent.error_log)
        /\ Len(ent.compliance_violations) <= Len(ent.error_log)

\* C37 witness: two calls are over, one refused by validation (logged, not
\* audited) and one stopped by a compliance violation (logged, audited as
\* failed, entered in the ledger)
C37_Witness ==
    /\ ent.pc = "done" /\ ent.total_requests = 2
    /\ Len(ent.error_log) = 2
    /\ Cardinality(AuditEntries("failed")) = 1
    /\ Len(ent.compliance_violations) = 1

\* two calls are over, one successful and one failed
OneSuccessOneFailure ==
    /\ ent.pc = "done" /\ ent.total_requests = 2
    /\ Cardinality(AuditEntries("success")) = 1
    /\ Len(ent.error_log) = 1

\* ---- C38
\* C38: after any sequence of invocations of a domain made through the
\* enterprise, the success_rate monitored for the domain is the number of its
\* invocations that returned success divided by the number of its invocations
\* (success_rate is kept as the fraction num / den).
C38_SuccessRateIsSuccessShare ==
    \A k \in DOMAIN entDom :
        entDom[k].calls > 0 =>
            entDom[k].usage.num * entDom[k].calls = entDom[k].succeeded * entDom[k].usage.den

\* C38, in particular: an invocation that returns non-success lowers a
\* positive success_rate
FailedInvocationLowersRate ==
    [][\A k \in DOMAIN entDom :
          (/\ entDom'[k].calls = entDom[k].calls + 1
           /\ entDom'[k].succeeded = entDom[k].succeeded
           /\ entDom[k].usage.num > 0)
              => entDom'[k].usage.num * entDom[k].usage.den
                     < entDom[k].usage.num * entDom'[k].usage.den]_vars

\* what the code keeps: a success_rate that no invocation ever lowers
RateNeverFalls ==
    [][\A k \in DOMAIN entDom :
          entDom'[k].usage.num * entDom[k].usage.den
              >= entDom[k].usage.num * entDom'[k].usage.den]_vars

====
